---- MODULE Spec2Model ----
(***************************************************************************)
(* A model of favannat: the feedforward fabricator (the staging scheduler  *)
(* of matrix/fabricator.rs), the evaluators built from its schedule, the   *)
(* unroll pass of network/mod.rs, the recurrent fabricator / evaluator,    *)
(* the sparse fabricator and evaluator of sparse_matrix/, and the          *)
(* node-by-node evaluator of neat_original/.                               *)
(*                                                                         *)
(* Numbers: weights, inputs and values are integers (f64 in the source);   *)
(* the activations modelled are the ones that map integers to integers,    *)
(* and GAUSSIAN, whose value away from 0 is kept as a term.                *)
(* f64::NAN, the "unset" marker of compute_or_carry, is the empty option   *)
(* NaN == <<>>, a set weight w is Some(w) == <<w>>.                         *)
(* Sequences are 1-based: slot i of the source is position i + 1 here.     *)
(***************************************************************************)
EXTENDS Integers, Sequences, FiniteSets, TLC

VARIABLES
    net,                    \* the graph handed to the feedforward fabricator
    pc,                     \* position: "start", "stage", "done", "failed"
    result,                 \* "none", "ok", an error string, or "panic"
    dependency_graph,       \* HashMap<usize, Vec<&E>> in its iteration order
    dependency_count,
    compute_stages,         \* Vec<crate::Matrix>: per stage a list of columns
    stage_transformations,  \* Vec<crate::Transformations>
    available_nodes,
    wanted_nodes,
    next_available_nodes,   \* the list built by the last staging round
    stage_rows,             \* history: available_nodes of every committed stage
    stage_cols,             \* history: node id behind every committed column
    evaluator,              \* the MatrixEvaluator returned by fabricate
    state_in,               \* argument of the last evaluate call
    state_out,              \* its return value
    eval_status,            \* "none", "ok", or "panic" on a shape mismatch
    recurrent,              \* the graph handed to the recurrent fabricator
    rpc,                    \* recurrent fabricator: "off", "unroll", "fabricate",
                            \* "ready", "failed", "panic"
    internal,               \* MatrixRecurrentEvaluator::internal
    outputs_count,          \* MatrixRecurrentEvaluator::outputs
    steps,                  \* number of recurrent evaluate calls so far
    history,                \* the inputs of those calls since the last reset
    user_out,               \* return value of the last recurrent evaluate call
    sparse_pc,              \* sparse fabricator: "start", "done", "failed"
    sparse_result,          \* "none", "ok", an error string, or "panic"
    sparse_compute_stages,  \* Vec<(Vec<usize>, Vec<usize>, Vec<f64>)>
    sparse_stage_transformations,
    sparse_stage_rows,      \* history: available_nodes of every pushed stage
    sparse_stage_cols,      \* history: next_available_nodes of every pushed stage
    sparse_evaluator,       \* the SparseMatrixEvaluator returned by fabricate
    sparse_state_out,       \* return value of the sparse evaluator's evaluate
    sparse_eval_status,     \* "none", "ok", or "panic"
    neat_pc,                \* NeatOriginalEvaluator: "off", "start", "ready",
                            \* or "hangs" inside an evaluate call
    neat_evaluator,         \* the NeatOriginalEvaluator
    neat_calls,             \* the calls made on it: evaluate(input) and reset
    neat_out                \* return value of its last evaluate call

vars == <<net, pc, result, dependency_graph, dependency_count, compute_stages,
          stage_transformations, available_nodes, wanted_nodes,
          next_available_nodes, stage_rows, stage_cols, evaluator, state_in,
          state_out, eval_status, recurrent, rpc, internal, outputs_count, steps,
          history, user_out, sparse_pc, sparse_result, sparse_compute_stages,
          sparse_stage_transformations, sparse_stage_rows, sparse_stage_cols,
          sparse_evaluator, sparse_state_out, sparse_eval_status, neat_pc,
          neat_evaluator, neat_calls, neat_out>>

svars == <<sparse_pc, sparse_result, sparse_compute_stages,
           sparse_stage_transformations, sparse_stage_rows, sparse_stage_cols,
           sparse_evaluator, sparse_state_out, sparse_eval_status>>

nvars == <<neat_pc, neat_evaluator, neat_calls, neat_out>>

\* what the dense fabricators and evaluators never touch
xvars == <<svars, nvars>>

rvars == <<recurrent, rpc, internal, outputs_count, steps, history, user_out>>

fvars == <<dependency_graph, dependency_count, compute_stages,
           stage_transformations, available_nodes, wanted_nodes,
           next_available_nodes, stage_rows, stage_cols>>

(***************************************************************************)
(* Bounds of the model.                                                    *)
(***************************************************************************)
MaxNodes == 3
MaxEdges == 3
MaxWeight == 2
MaxInput == 2
MaxNonLinear == 1
MaxRecurrentEdges == 2
MaxSteps == 3
MaxId == 3

NodeIds(n) == 0 .. (n - 1)
Weights == 1 .. MaxWeight
XVals == 1 .. MaxInput

(***************************************************************************)
(* Error surface.                                                          *)
(***************************************************************************)
ErrNoEdges == "no edges present, net invalid"
ErrUnresolved == "can't resolve dependencies, net invalid"
ErrOutputs == "dependencies resolved but not all outputs computable, net invalid"

(***************************************************************************)
(* Activations.                                                            *)
(***************************************************************************)
Activations == {"LINEAR", "SQUARED"}

Apply(activation, val) ==
    CASE activation = "LINEAR" -> val
      [] activation = "SQUARED" -> val * val
      [] activation = "INVERSE" -> 0 - val
      [] activation = "RELU" -> IF val > 0 THEN val ELSE 0
      [] activation = "identity" -> val
      [] activation = "GAUSSIAN" ->
            \* exp(val * val / -2.0): 1 at 0, kept as a term elsewhere
            IF val = 0 THEN 1 ELSE [exp_of_minus_half_square |-> val]

(***************************************************************************)
(* Sequence helpers.                                                       *)
(***************************************************************************)
Contains(seq, x) == \E i \in 1 .. Len(seq) : seq[i] = x

Range(seq) == {seq[i] : i \in 1 .. Len(seq)}

Injective(seq) == \A i, j \in 1 .. Len(seq) : seq[i] = seq[j] => i = j

Perms(S) == {f \in [1 .. Cardinality(S) -> S] : Injective(f)}

SetMax(S) == CHOOSE m \in S : \A k \in S : k <= m

SetMin(S) == CHOOSE m \in S : \A k \in S : m <= k

RECURSIVE Insert(_, _)
Insert(sorted, x) ==
    IF sorted = <<>> THEN <<x>>
    ELSE IF x <= Head(sorted) THEN <<x>> \o sorted
    ELSE <<Head(sorted)>> \o Insert(Tail(sorted), x)

\* mutant: the sort is left out
sort_unstable_skipped(seq) == seq

RECURSIVE sort_unstable(_)
sort_unstable(seq) ==
    IF seq = <<>> THEN <<>>
    ELSE Insert(sort_unstable(Tail(seq)), Head(seq))

(***************************************************************************)
(* network::net::Net and its NetworkLike accessors.                        *)
(***************************************************************************)
Node(id, activation) == [id |-> id, activation |-> activation]

Edge(start, end, weight) == [start |-> start, end |-> end, weight |-> weight]

inputs(n) == SubSeq(n.nodes, 1, n.inputs)

hidden(n) == SubSeq(n.nodes, n.inputs + 1, Len(n.nodes) - n.outputs)

outputs(n) == SubSeq(n.nodes, Len(n.nodes) - n.outputs + 1, Len(n.nodes))

nodes(n) == n.nodes

edges(n) == n.edges

IdsOf(seq) == [i \in 1 .. Len(seq) |-> seq[i].id]

\* net.nodes().iter().find(|node| node.id() == id).unwrap().activation()
ActivationOf(n, id) ==
    LET hits == {i \in 1 .. Len(nodes(n)) : nodes(n)[i].id = id}
    IN nodes(n)[SetMin(hits)].activation

(***************************************************************************)
(* The feedforward fabricator, step 1: the dependency graph.               *)
(***************************************************************************)
EndsOf(es) == {es[i].end : i \in 1 .. Len(es)}

DependenciesOf(es, node) ==
    LET EndsAt(e) == e.end = node IN SelectSeq(es, EndsAt)

\* mutant: the emptiness check is left out
NoEdgesPresentIgnored(graph) == FALSE

\* dependency_graph.is_empty() after the edges were bucketed
NoEdgesPresent(graph) == graph = <<>>

\* the map iterated in the order `order` of its keys
BuildDependencyGraph(es, order) ==
    [i \in 1 .. Len(order) |->
        [node |-> order[i], dependencies |-> DependenciesOf(es, order[i])]]

(***************************************************************************)
(* Step 3a/3b: one pass over the dependency graph.                         *)
(***************************************************************************)
NaN == <<>>

Some(w) == <<w>>

\* mutant: the first of two dependencies that hit the same slot is kept
ComputeOrCarryFirstWins(dependencies, available) ==
    [index \in 1 .. Len(available) |->
        LET hits == {k \in 1 .. Len(dependencies) :
                        dependencies[k].start = available[index]}
        IN IF hits = {} THEN NaN ELSE Some(dependencies[SetMin(hits)].weight)]

\* the inner loops of lines 108-123: a later dependency overwrites an earlier
\* one that hits the same slot
ComputeOrCarry(dependencies, available) ==
    [index \in 1 .. Len(available) |->
        LET hits == {k \in 1 .. Len(dependencies) :
                        dependencies[k].start = available[index]}
        IN IF hits = {} THEN NaN ELSE Some(dependencies[SetMax(hits)].weight)]

Computable(dependencies, available) ==
    \A k \in 1 .. Len(dependencies) : Contains(available, dependencies[k].start)

NanToZero(compute_or_carry) ==
    [index \in 1 .. Len(compute_or_carry) |->
        IF compute_or_carry[index] = NaN THEN 0 ELSE compute_or_carry[index][1]]

OneHot(len, index) == [i \in 1 .. len |-> IF i = index THEN 1 ELSE 0]

EmptyStage == [stage_matrix |-> <<>>, transformations |-> <<>>,
               next_available_nodes |-> <<>>]

PushColumn(acc, column, activation, node) ==
    [stage_matrix |-> Append(acc.stage_matrix, column),
     transformations |-> Append(acc.transformations, activation),
     next_available_nodes |-> Append(acc.next_available_nodes, node)]

PushCarry(acc, available, index) ==
    PushColumn(acc, OneHot(Len(available), index), "identity", available[index])

RECURSIVE Carries(_, _, _, _)
Carries(acc, compute_or_carry, available, index) ==
    IF index > Len(available) THEN acc
    ELSE IF /\ ~Contains(acc.next_available_nodes, available[index])
            /\ compute_or_carry[index] # NaN
         THEN Carries(PushCarry(acc, available, index), compute_or_carry,
                      available, index + 1)
         ELSE Carries(acc, compute_or_carry, available, index + 1)

ProcessNode(acc, entry, available, n) ==
    LET compute_or_carry == ComputeOrCarry(entry.dependencies, available)
    IN IF Computable(entry.dependencies, available)
       THEN PushColumn(acc, NanToZero(compute_or_carry),
                       ActivationOf(n, entry.node), entry.node)
       ELSE Carries(acc, compute_or_carry, available, 1)

RECURSIVE DependencyLoop(_, _, _, _, _)
DependencyLoop(acc, graph, k, available, n) ==
    IF k > Len(graph) THEN acc
    ELSE DependencyLoop(ProcessNode(acc, graph[k], available, n), graph, k + 1,
                        available, n)

(***************************************************************************)
(* Step 3c: keep wanted nodes that are already available.                  *)
(***************************************************************************)
\* mutant: a wanted node is carried whether or not the stage holds it already
CarriedAlreadyIgnored(acc, id) == FALSE

\* lines 171-175: next_available_nodes.iter().find(..) finds the node
CarriedAlready(acc, id) == Contains(acc.next_available_nodes, id)

RECURSIVE KeepWanted(_, _, _, _, _)
KeepWanted(acc, wanted, available, w, index) ==
    IF w > Len(wanted) THEN acc
    ELSE IF index > Len(available) THEN KeepWanted(acc, wanted, available, w + 1, 1)
    ELSE IF /\ available[index] = wanted[w]
            /\ ~CarriedAlready(acc, available[index])
         THEN KeepWanted(PushCarry(acc, available, index), wanted, available,
                         w, index + 1)
         ELSE KeepWanted(acc, wanted, available, w, index + 1)

(***************************************************************************)
(* Step 3d: remove what became available from the dependency graph.        *)
(***************************************************************************)
RemoveResolved(graph, next_available) ==
    LET Unresolved(entry) == ~Contains(next_available, entry.node)
    IN SelectSeq(graph, Unresolved)

(***************************************************************************)
(* Step 4: the final reorder. reordered_matrix[index] = column panics when *)
(* index is not below the length of the cloned stage.                      *)
(***************************************************************************)
WantedIndex(wanted, node) ==
    LET hits == {index \in 1 .. Len(wanted) : wanted[index] = node}
    IN IF hits = {} THEN 0 ELSE SetMin(hits)

RECURSIVE ReorderLoop(_, _, _, _)
ReorderLoop(r, acc, wanted, k) ==
    IF r.panicked \/ k > Len(acc.next_available_nodes) THEN r
    ELSE LET index == WantedIndex(wanted, acc.next_available_nodes[k])
         IN IF index = 0 THEN ReorderLoop(r, acc, wanted, k + 1)
            ELSE IF index > Len(r.reordered_matrix)
            THEN [r EXCEPT !.panicked = TRUE]
            ELSE ReorderLoop(
                    [reordered_matrix |->
                        [r.reordered_matrix EXCEPT ![index] = acc.stage_matrix[k]],
                     reordered_transformations |->
                        [r.reordered_transformations EXCEPT
                            ![index] = acc.transformations[k]],
                     reordered_nodes |->
                        [r.reordered_nodes EXCEPT
                            ![index] = acc.next_available_nodes[k]],
                     matched_wanted_count |-> r.matched_wanted_count + 1,
                     panicked |-> FALSE],
                    acc, wanted, k + 1)

\* mutant: the permutation is computed but the stage is committed as built
ReorderNotCommitted(acc, wanted) ==
    [ReorderLoop([reordered_matrix |-> acc.stage_matrix,
                  reordered_transformations |-> acc.transformations,
                  reordered_nodes |-> acc.next_available_nodes,
                  matched_wanted_count |-> 0,
                  panicked |-> FALSE],
                 acc, wanted, 1)
        EXCEPT !.reordered_matrix = acc.stage_matrix,
               !.reordered_transformations = acc.transformations,
               !.reordered_nodes = acc.next_available_nodes]

Reorder(acc, wanted) ==
    ReorderLoop([reordered_matrix |-> acc.stage_matrix,
                 reordered_transformations |-> acc.transformations,
                 reordered_nodes |-> acc.next_available_nodes,
                 matched_wanted_count |-> 0,
                 panicked |-> FALSE],
                acc, wanted, 1)

(***************************************************************************)
(* Step 5: get_arr2 flattens the columns, shapes them (dim_x, dim_y) and   *)
(* reverses the axes: the result has dim_y rows and dim_x columns.         *)
(***************************************************************************)
RECURSIVE Flatten(_)
Flatten(dynamic_matrix) ==
    IF dynamic_matrix = <<>> THEN <<>>
    ELSE Head(dynamic_matrix) \o Flatten(Tail(dynamic_matrix))

\* mutant: the axes are not reversed
get_arr2_not_reversed(dynamic_matrix) ==
    LET dim_x == Len(dynamic_matrix)
        dim_y == Len(dynamic_matrix[1])
        flat_vec == Flatten(dynamic_matrix)
    IN [nrows |-> dim_x, ncols |-> dim_y,
        at |-> [row \in 1 .. dim_x |->
                  [col \in 1 .. dim_y |-> flat_vec[(row - 1) * dim_y + col]]]]

get_arr2(dynamic_matrix) ==
    LET dim_x == Len(dynamic_matrix)
        dim_y == Len(dynamic_matrix[1])
        flat_vec == Flatten(dynamic_matrix)
    IN [nrows |-> dim_y, ncols |-> dim_x,
        at |-> [row \in 1 .. dim_y |->
                  [col \in 1 .. dim_x |-> flat_vec[(col - 1) * dim_y + row]]]]

(***************************************************************************)
(* The feedforward evaluator.                                              *)
(***************************************************************************)
RECURSIVE DotColumn(_, _, _, _)
DotColumn(state, matrix, col, row) ==
    IF row > Len(state) THEN 0
    ELSE state[row] * matrix.at[row][col] + DotColumn(state, matrix, col, row + 1)

Dot(state, matrix) == [col \in 1 .. matrix.ncols |-> DotColumn(state, matrix, col, 1)]

Transform(state, transformations) ==
    [j \in 1 .. Len(state) |->
        IF j <= Len(transformations) THEN Apply(transformations[j], state[j])
        ELSE state[j]]

\* state.dot(stage_matrix) panics when the shapes do not agree
RECURSIVE EvaluateFrom(_, _, _)
EvaluateFrom(ev, state, k) ==
    IF k > Len(ev.stages) \/ k > Len(ev.transformations)
    THEN [status |-> "ok", state |-> state]
    ELSE IF Len(state) # ev.stages[k].nrows
    THEN [status |-> "panic", state |-> <<>>]
    ELSE EvaluateFrom(ev, Transform(Dot(state, ev.stages[k]), ev.transformations[k]),
                      k + 1)

\* mutant: the first stage of the schedule is not applied
evaluate_from_second_stage(ev, state) == EvaluateFrom(ev, state, 2)

evaluate(ev, state) == EvaluateFrom(ev, state, 1)

(***************************************************************************)
(* Graphs the caller can hand in: Net::new(inputs, outputs, nodes, edges)  *)
(* with pairwise distinct node ids, disjoint input and output partitions   *)
(* and edges between declared nodes.                                       *)
(***************************************************************************)
\* node ids as the nodes! macro numbers them, or listed in descending order
NodeOrders(n) == {[i \in 1 .. n |-> i - 1], [i \in 1 .. n |-> n - i]}

ActivationMaps(n) ==
    {activation \in [NodeIds(n) -> Activations] :
        Cardinality({id \in NodeIds(n) : activation[id] # "LINEAR"}) <= MaxNonLinear}

NodeLists(n) ==
    {[i \in 1 .. n |-> Node(order[i], activation[order[i]])] :
        order \in NodeOrders(n), activation \in ActivationMaps(n)}

EdgeSet(n) ==
    {Edge(start, end, weight) :
        start \in NodeIds(n), end \in NodeIds(n), weight \in Weights}

\* edge lists grouped by (start, end): the order of two edges matters to the
\* fabricator only when they share both endpoints
EdgeKey(e) == e.start * MaxNodes + e.end

RECURSIVE GroupedLists(_, _)
GroupedLists(n, k) ==
    IF k = 0 THEN {<<>>}
    ELSE LET shorter == GroupedLists(n, k - 1)
         IN shorter \cup
            {Append(q[1], q[2]) :
                q \in {p \in shorter \X EdgeSet(n) :
                          /\ Len(p[1]) = k - 1
                          /\ \/ p[1] = <<>>
                             \/ EdgeKey(p[1][k - 1]) <= EdgeKey(p[2])}}

EdgeLists == [n \in 2 .. MaxNodes |-> GroupedLists(n, MaxEdges)]

NetsOf(n) ==
    {[inputs |-> io[1], outputs |-> io[2], nodes |-> ns, edges |-> es,
      recurrent_edges |-> <<>>] :
        io \in {p \in (1 .. n) \X (1 .. n) : p[1] + p[2] <= n},
        ns \in NodeLists(n), es \in EdgeLists[n]}

NoNeatEvaluator ==
    [input_ids |-> <<>>, output_ids |-> <<>>, nodes |-> <<>>,
     node_input_sum |-> <<>>, node_active_output |-> <<>>]

\* the sparse fabricator has not been called
SparseIdle ==
    /\ sparse_pc = "start"
    /\ sparse_result = "none"
    /\ sparse_compute_stages = <<>>
    /\ sparse_stage_transformations = <<>>
    /\ sparse_stage_rows = <<>>
    /\ sparse_stage_cols = <<>>
    /\ sparse_evaluator = [stages |-> <<>>, transformations |-> <<>>]
    /\ sparse_state_out = <<>>
    /\ sparse_eval_status = "none"

\* the other fabricators have not been called
OthersIdle ==
    /\ SparseIdle
    /\ neat_pc = "off"
    /\ neat_evaluator = NoNeatEvaluator
    /\ neat_calls = <<>>
    /\ neat_out = <<>>

NoEvaluator == [stages |-> <<>>, transformations |-> <<>>]

NoNet == [inputs |-> 0, outputs |-> 0, nodes |-> <<>>, edges |-> <<>>,
          recurrent_edges |-> <<>>]

Init ==
    /\ \E n \in 2 .. MaxNodes : net \in NetsOf(n)
    /\ pc = "start"
    /\ result = "none"
    /\ dependency_graph = <<>>
    /\ dependency_count = 0
    /\ compute_stages = <<>>
    /\ stage_transformations = <<>>
    /\ available_nodes = <<>>
    /\ wanted_nodes = <<>>
    /\ next_available_nodes = <<>>
    /\ stage_rows = <<>>
    /\ stage_cols = <<>>
    /\ evaluator = NoEvaluator
    /\ state_in = <<>>
    /\ state_out = <<>>
    /\ eval_status = "none"
    /\ recurrent = NoNet
    /\ rpc = "off"
    /\ internal = <<>>
    /\ outputs_count = 0
    /\ steps = 0
    /\ history = <<>>
    /\ user_out = <<>>
    /\ OthersIdle

(***************************************************************************)
(* fabricate, lines 57-93: dependency graph, available and wanted nodes.   *)
(***************************************************************************)
FabricateStart ==
    /\ pc = "start"
    /\ \E order \in Perms(EndsOf(edges(net))) :
         dependency_graph' = BuildDependencyGraph(edges(net), order)
    /\ IF NoEdgesPresent(dependency_graph')
       THEN /\ pc' = "failed"
            /\ result' = ErrNoEdges
            /\ UNCHANGED <<dependency_count, available_nodes, wanted_nodes>>
       ELSE /\ pc' = "stage"
            /\ result' = "none"
            /\ dependency_count' = Len(dependency_graph')
            /\ available_nodes' = sort_unstable(IdsOf(inputs(net)))
            /\ wanted_nodes' = sort_unstable(IdsOf(outputs(net)))
    /\ UNCHANGED <<net, next_available_nodes, compute_stages, stage_transformations, stage_rows,
                   stage_cols, evaluator, state_in, state_out, eval_status, rvars,
                   xvars>>

(***************************************************************************)
(* fabricate, lines 96-256: one round of the staging loop; the round that  *)
(* empties the dependency graph reorders, commits and returns.             *)
(***************************************************************************)
Fail(message) ==
    /\ pc' = "failed"
    /\ result' = message
    /\ UNCHANGED <<compute_stages, stage_transformations, available_nodes,
                   stage_rows, stage_cols, evaluator>>

Commit(stage_matrix, transformations, column_nodes, next_available, finished) ==
    /\ compute_stages' = Append(compute_stages, stage_matrix)
    /\ stage_transformations' = Append(stage_transformations, transformations)
    /\ stage_rows' = Append(stage_rows, available_nodes)
    /\ stage_cols' = Append(stage_cols, column_nodes)
    /\ available_nodes' = next_available
    /\ IF finished
       THEN /\ pc' = "done"
            /\ result' = "ok"
            /\ evaluator' =
                 [stages |-> [s \in 1 .. Len(compute_stages') |->
                                 get_arr2(compute_stages'[s])],
                  transformations |-> stage_transformations']
       ELSE /\ pc' = "stage"
            /\ result' = "none"
            /\ evaluator' = evaluator

\* mutant: the progress check is left out
NoProgressIgnored(remaining, count) == FALSE

\* line 195: dependency_graph.len() == dependency_count
NoProgress(remaining, count) == Len(remaining) = count

Stage ==
    /\ pc = "stage"
    /\ LET computed == DependencyLoop(EmptyStage, dependency_graph, 1,
                                      available_nodes, net)
           acc == KeepWanted(computed, wanted_nodes, available_nodes, 1, 1)
           remaining == RemoveResolved(dependency_graph, acc.next_available_nodes)
           r == Reorder(acc, wanted_nodes)
       IN /\ dependency_graph' = remaining
          /\ next_available_nodes' = acc.next_available_nodes
          /\ IF NoProgress(remaining, dependency_count)
             THEN /\ Fail(ErrUnresolved)
                  /\ UNCHANGED dependency_count
             ELSE /\ dependency_count' = Len(remaining)
                  /\ IF remaining # <<>>
                     THEN Commit(acc.stage_matrix, acc.transformations,
                                 acc.next_available_nodes,
                                 acc.next_available_nodes, FALSE)
                     ELSE IF r.panicked THEN Fail("panic")
                     ELSE IF r.matched_wanted_count < Len(wanted_nodes)
                     THEN Fail(ErrOutputs)
                     ELSE Commit(r.reordered_matrix, r.reordered_transformations,
                                 r.reordered_nodes, acc.next_available_nodes, TRUE)
    /\ UNCHANGED <<net, wanted_nodes, state_in, state_out, eval_status, rvars,
                   xvars>>

(***************************************************************************)
(* Evaluator::evaluate on the compiled schedule.                           *)
(***************************************************************************)
Evaluate ==
    /\ pc = "done"
    /\ \E x \in [1 .. net.inputs -> XVals] :
         /\ state_in' = x
         /\ state_out' = evaluate(evaluator, x).state
         /\ eval_status' = evaluate(evaluator, x).status
    /\ UNCHANGED <<net, pc, result, dependency_graph, dependency_count,
                   compute_stages, stage_transformations, available_nodes,
                   wanted_nodes, next_available_nodes, stage_rows, stage_cols,
                   evaluator, rvars, xvars>>

Next == FabricateStart \/ Stage \/ Evaluate

Spec == Init /\ [][Next]_vars

(***************************************************************************)
(* The same graphs with every weight lowered by one, so that edges of      *)
(* weight 0 occur (simple_net_evaluator_9).                                *)
(***************************************************************************)
Lowered(es) ==
    [k \in 1 .. Len(es) |-> Edge(es[k].start, es[k].end, es[k].weight - 1)]

ZeroWeightNetsOf(n) == {[g EXCEPT !.edges = Lowered(g.edges)] : g \in NetsOf(n)}

InitZero ==
    /\ \E n \in 2 .. MaxNodes : net \in ZeroWeightNetsOf(n)
    /\ pc = "start"
    /\ result = "none"
    /\ dependency_graph = <<>>
    /\ dependency_count = 0
    /\ compute_stages = <<>>
    /\ stage_transformations = <<>>
    /\ available_nodes = <<>>
    /\ wanted_nodes = <<>>
    /\ next_available_nodes = <<>>
    /\ stage_rows = <<>>
    /\ stage_cols = <<>>
    /\ evaluator = NoEvaluator
    /\ state_in = <<>>
    /\ state_out = <<>>
    /\ eval_status = "none"
    /\ recurrent = NoNet
    /\ rpc = "off"
    /\ internal = <<>>
    /\ outputs_count = 0
    /\ steps = 0
    /\ history = <<>>
    /\ user_out = <<>>
    /\ OthersIdle

SpecZero == InitZero /\ [][Next]_vars

(***************************************************************************)
(* net::unroll, network/mod.rs lines 219-390.                              *)
(***************************************************************************)
recurrent_edges(n) == n.recurrent_edges

\* mutant: the nodes are taken in the order the caller declared them
DeclaredOrder(seq) == seq

\* known_inputs.sort_unstable(): Node is ordered by its id
SortById(seq) ==
    LET ids == sort_unstable(IdsOf(seq))
    IN [i \in 1 .. Len(seq) |-> CHOOSE node \in Range(seq) : node.id = ids[i]]

\* mutant: ids are handed out from 0 whether known or not
NthNatural(known_ids, k) == k - 1

\* the k-th item of (usize::MIN..usize::MAX).filter(|id| !known_ids.contains(id))
RECURSIVE NthNotIn(_, _, _)
NthNotIn(known_ids, k, tmp_id) ==
    IF tmp_id \in known_ids THEN NthNotIn(known_ids, k, tmp_id + 1)
    ELSE IF k = 1 THEN tmp_id
    ELSE NthNotIn(known_ids, k - 1, tmp_id + 1)

new_low_ids(known_ids, k) == NthNotIn(known_ids, k, 0)

PatchEdges(es, old_id, new_id) ==
    [i \in 1 .. Len(es) |->
        [es[i] EXCEPT !.start = IF @ = old_id THEN new_id ELSE @,
                      !.end = IF @ = old_id THEN new_id ELSE @]]

\* lines 253-283 (inputs) and 288-318 (outputs): the next fresh id for every
\* node of the sorted list, every edge endpoint patched
RECURSIVE ReIdentify(_, _, _, _)
ReIdentify(u, sorted, k, known_ids) ==
    IF k > Len(sorted) THEN u
    ELSE LET new_id == new_low_ids(known_ids, u.taken + 1)
         IN ReIdentify(
                [u EXCEPT !.known_edges = PatchEdges(@, sorted[k].id, new_id),
                          !.known_recurrent_edges =
                              PatchEdges(@, sorted[k].id, new_id),
                          !.renamed = Append(@, Node(new_id, sorted[k].activation)),
                          !.taken = @ + 1],
                sorted, k + 1, known_ids)

\* mutant: no wrapper input is created for the original outputs
WrapOutputsSkipped(u, k, known_ids) == u

\* lines 324-335: a wrapper input for every original output
RECURSIVE WrapOutputs(_, _, _)
WrapOutputs(u, k, known_ids) ==
    IF k > Len(u.known_outputs) THEN u
    ELSE LET wrapper_input_id == new_low_ids(known_ids, u.taken + 1)
         IN WrapOutputs(
                [u EXCEPT !.known_inputs =
                              Append(@, Node(wrapper_input_id, "identity")),
                          !.unroll_map =
                              (u.known_outputs[k].id :> wrapper_input_id) @@ @,
                          !.taken = @ + 1],
                k + 1, known_ids)

\* mutant: or_insert_with runs for every recurrent edge
HasWrapperForgotten(unroll_map, start) == FALSE

\* line 339, unroll_map.entry(recurrent_edge.start()): the entry is occupied
HasWrapper(unroll_map, start) == start \in DOMAIN unroll_map

\* lines 338-375: per recurrent edge the wrapper pair of its start (created on
\* first use, with the weight-1 outward edge) and the inward edge
RECURSIVE WrapRecurrent(_, _, _)
WrapRecurrent(u, k, known_ids) ==
    IF k > Len(u.known_recurrent_edges) THEN u
    ELSE LET recurrent_edge == u.known_recurrent_edges[k]
             wrapper_input_id == new_low_ids(known_ids, u.taken + 1)
             wrapper_output_id == new_low_ids(known_ids, u.taken + 2)
             v == IF HasWrapper(u.unroll_map, recurrent_edge.start) THEN u
                  ELSE [u EXCEPT
                           !.known_inputs =
                               Append(@, Node(wrapper_input_id, "identity")),
                           !.known_outputs =
                               Append(@, Node(wrapper_output_id, "identity")),
                           !.known_edges =
                               Append(@, Edge(recurrent_edge.start,
                                              wrapper_output_id, 1)),
                           !.unroll_map =
                               (recurrent_edge.start :> wrapper_input_id) @@ @,
                           !.taken = @ + 2]
             recurrent_input == v.unroll_map[recurrent_edge.start]
         IN WrapRecurrent(
                [v EXCEPT !.known_edges =
                              Append(@, Edge(recurrent_input, recurrent_edge.end,
                                             recurrent_edge.weight))],
                k + 1, known_ids)

\* lines 220-318: the state of unroll once inputs and outputs have new ids
ReIdentified(r) ==
    LET known_ids == Range(IdsOf(nodes(r)))
        known_inputs ==
            ReIdentify([known_edges |-> edges(r),
                        known_recurrent_edges |-> recurrent_edges(r),
                        renamed |-> <<>>, taken |-> 0],
                       SortById(inputs(r)), 1, known_ids)
        known_outputs ==
            ReIdentify([known_inputs EXCEPT !.renamed = <<>>],
                       SortById(outputs(r)), 1, known_ids)
    IN [known_inputs |-> known_inputs.renamed,
        known_outputs |-> known_outputs.renamed,
        known_edges |-> known_outputs.known_edges,
        known_recurrent_edges |-> known_outputs.known_recurrent_edges,
        unroll_map |-> <<>>,
        taken |-> known_outputs.taken]

unroll(r) ==
    LET known_ids == Range(IdsOf(nodes(r)))
        wrapped ==
            WrapRecurrent(WrapOutputs(ReIdentified(r), 1, known_ids), 1, known_ids)
    IN [inputs |-> Len(wrapped.known_inputs),
        outputs |-> Len(wrapped.known_outputs),
        nodes |-> wrapped.known_inputs \o hidden(r) \o wrapped.known_outputs,
        edges |-> wrapped.known_edges,
        recurrent_edges |-> <<>>]

(***************************************************************************)
(* Recurrent graphs the caller can hand in: a Net with set_recurrent_edges. *)
(***************************************************************************)
\* ordinary edges of weight 1, recurrent edges of weight MaxWeight
WithWeight(lists, weight) ==
    {[i \in 1 .. Len(es) |-> Edge(es[i].start, es[i].end, weight)] : es \in lists}

OrdinaryEdgeLists == [n \in 2 .. MaxNodes |-> WithWeight(EdgeLists[n], 1)]

RecurrentEdgeLists ==
    [n \in 2 .. MaxNodes |->
        WithWeight(GroupedLists(n, MaxRecurrentEdges), MaxWeight)]

\* the ordinary edges of a recurrent graph lead forward: no self-loop and no
\* edge into an input (those graphs are the feedforward family's)
LeadsForward(es, input_ids) ==
    \A i \in 1 .. Len(es) : es[i].start # es[i].end /\ es[i].end \notin input_ids

RecurrentNetsWith(n, io, ns) ==
    {[inputs |-> io[1], outputs |-> io[2], nodes |-> ns, edges |-> q[1],
      recurrent_edges |-> q[2]] :
        q \in {p \in OrdinaryEdgeLists[n] \X RecurrentEdgeLists[n] :
                  /\ Len(p[1]) + Len(p[2]) <= MaxEdges
                  /\ LeadsForward(p[1], {ns[i].id : i \in 1 .. io[1]})}}

RecurrentNetsOf(n) ==
    UNION {RecurrentNetsWith(n, c[1], c[2]) :
              c \in {d \in ((1 .. n) \X (1 .. n)) \X NodeLists(n) :
                        /\ d[1][1] + d[1][2] <= n
                        /\ \A i \in 1 .. d[1][1] : d[2][i].activation = "LINEAR"}}

InitRecurrent ==
    /\ \E n \in 2 .. MaxNodes : recurrent \in RecurrentNetsOf(n)
    /\ rpc = "unroll"
    /\ net = NoNet
    /\ pc = "idle"
    /\ result = "none"
    /\ dependency_graph = <<>>
    /\ dependency_count = 0
    /\ compute_stages = <<>>
    /\ stage_transformations = <<>>
    /\ available_nodes = <<>>
    /\ wanted_nodes = <<>>
    /\ next_available_nodes = <<>>
    /\ stage_rows = <<>>
    /\ stage_cols = <<>>
    /\ evaluator = NoEvaluator
    /\ state_in = <<>>
    /\ state_out = <<>>
    /\ eval_status = "none"
    /\ internal = <<>>
    /\ outputs_count = 0
    /\ steps = 0
    /\ history = <<>>
    /\ user_out = <<>>
    /\ OthersIdle

(***************************************************************************)
(* Recurrent graphs for unroll alone: node ids are any distinct ids up to  *)
(* MaxId, listed in any order (Node::new takes the id from the caller).    *)
(***************************************************************************)
IdLists(n) == {ids \in [1 .. n -> 0 .. MaxId] : Injective(ids)}

\* the graph g over the ids 0 .. n-1, node i - 1 renamed to ids[i]
Relabelled(g, ids) ==
    LET relabel(es) ==
            [i \in 1 .. Len(es) |->
                Edge(ids[es[i].start + 1], ids[es[i].end + 1], es[i].weight)]
    IN [inputs |-> g.inputs, outputs |-> g.outputs,
        nodes |-> [i \in 1 .. Len(g.nodes) |-> Node(ids[i], g.nodes[i].activation)],
        edges |-> relabel(g.edges),
        recurrent_edges |-> relabel(g.recurrent_edges)]

BaseNetsOf(n) ==
    {[inputs |-> io[1], outputs |-> io[2],
      nodes |-> [i \in 1 .. n |-> Node(i - 1, "LINEAR")],
      edges |-> q[1], recurrent_edges |-> q[2]] :
        io \in {p \in (1 .. n) \X (1 .. n) : p[1] + p[2] <= n},
        q \in {p \in OrdinaryEdgeLists[n] \X RecurrentEdgeLists[n] :
                  Len(p[1]) <= 1}}

UnrollNetsOf(n) ==
    {Relabelled(c[1], c[2]) : c \in BaseNetsOf(n) \X IdLists(n)}

NothingFabricated ==
    /\ net = NoNet
    /\ pc = "idle"
    /\ result = "none"
    /\ dependency_graph = <<>>
    /\ dependency_count = 0
    /\ compute_stages = <<>>
    /\ stage_transformations = <<>>
    /\ available_nodes = <<>>
    /\ wanted_nodes = <<>>
    /\ next_available_nodes = <<>>
    /\ stage_rows = <<>>
    /\ stage_cols = <<>>
    /\ evaluator = NoEvaluator
    /\ state_in = <<>>
    /\ state_out = <<>>
    /\ eval_status = "none"
    /\ internal = <<>>
    /\ outputs_count = 0
    /\ steps = 0
    /\ history = <<>>
    /\ user_out = <<>>
    /\ OthersIdle

InitUnroll ==
    /\ \E n \in 2 .. MaxNodes : recurrent \in UnrollNetsOf(n)
    /\ rpc = "unroll"
    /\ NothingFabricated

(***************************************************************************)
(* MatrixRecurrentFabricator::fabricate: unroll, the feedforward           *)
(* fabricator on the unrolled graph (FabricateStart and Stage), then the   *)
(* memory and the evaluator.                                               *)
(***************************************************************************)
Unroll ==
    /\ rpc = "unroll"
    /\ net' = unroll(recurrent)
    /\ pc' = "start"
    /\ rpc' = "fabricate"
    /\ UNCHANGED <<result, fvars, evaluator, state_in, state_out, eval_status,
                   recurrent, internal, outputs_count, steps, history, user_out,
                   xvars>>

Zeros(len) == [i \in 1 .. len |-> 0]

RecurrentFabricate ==
    /\ rpc = "fabricate"
    /\ pc \in {"done", "failed"}
    /\ LET memory == Len(outputs(net))
       IN IF pc = "failed"
          THEN /\ rpc' = IF result = "panic" THEN "panic" ELSE "failed"
               /\ UNCHANGED <<internal, outputs_count>>
          ELSE IF Len(inputs(net)) - Len(inputs(recurrent)) # memory
          THEN /\ rpc' = "panic"
               /\ UNCHANGED <<internal, outputs_count>>
          ELSE /\ rpc' = "ready"
               /\ internal' = Zeros(memory)
               /\ outputs_count' = Len(outputs(recurrent))
    /\ UNCHANGED <<net, pc, result, fvars, evaluator, state_in, state_out,
                   eval_status, recurrent, steps, history, user_out, xvars>>

(***************************************************************************)
(* MatrixRecurrentEvaluator::evaluate and reset_internal_state.            *)
(***************************************************************************)
\* lines 17-22: the user input chained with the memory
ChainedInput(input, memory) == input \o memory

\* mutant: only the entries after the first `outputs` are kept as memory
RemainderOf(ff_result, outputs_len) ==
    SubSeq(ff_result, outputs_len + 1, Len(ff_result))

\* line 24: self.internal = self.evaluator.evaluate(input), the whole result
StoredInternal(ff_result, outputs_len) == ff_result

\* lines 26-33: self.internal.slice((0, 0), (1, self.outputs))
SliceOfOutputs(memory, outputs_len) == SubSeq(memory, 1, outputs_len)

RecurrentEvaluate ==
    /\ rpc = "ready"
    /\ steps < MaxSteps
    /\ \E x \in [1 .. Len(inputs(recurrent)) -> XVals] :
         LET input == ChainedInput(x, internal)
             r == evaluate(evaluator, input)
         IN /\ state_in' = input
            /\ state_out' = r.state
            /\ eval_status' = r.status
            /\ history' = Append(history, x)
            /\ IF r.status = "panic"
               THEN /\ rpc' = "panic"
                    /\ internal' = internal
                    /\ user_out' = <<>>
               ELSE /\ internal' = StoredInternal(r.state, outputs_count)
                    /\ IF Len(internal') < outputs_count
                       THEN /\ rpc' = "panic"
                            /\ user_out' = <<>>
                       ELSE /\ rpc' = "ready"
                            /\ user_out' = SliceOfOutputs(internal', outputs_count)
    /\ steps' = steps + 1
    /\ UNCHANGED <<net, pc, result, fvars, evaluator, recurrent, outputs_count,
                   xvars>>

\* mutant: the memory is left as it is
ResetSkipped(memory) == memory

\* line 37: DMatrix::from_element(1, self.internal.len(), 0.0)
ZeroedInternal(memory) == Zeros(Len(memory))

ResetInternalState ==
    /\ rpc = "ready"
    /\ internal' = ZeroedInternal(internal)
    /\ history' = <<>>
    /\ UNCHANGED <<net, pc, result, fvars, evaluator, state_in, state_out,
                   eval_status, recurrent, rpc, outputs_count, steps, user_out,
                   xvars>>

NextRecurrent ==
    \/ Unroll
    \/ FabricateStart
    \/ Stage
    \/ RecurrentFabricate
    \/ RecurrentEvaluate
    \/ ResetInternalState

SpecRecurrent == InitRecurrent /\ [][NextRecurrent]_vars

\* unroll applied to every graph of the unroll family
NextUnroll == Unroll

SpecUnroll == InitUnroll /\ [][NextUnroll]_vars

(***************************************************************************)
(* Reference semantics: node-by-node evaluation of the graph itself.       *)
(***************************************************************************)
InputIds(n) == Range(IdsOf(inputs(n)))

OutputIds(n) == Range(IdsOf(outputs(n)))

\* 1-based rank of id in the ascending order of S
RankIn(S, id) == Cardinality({j \in S : j < id}) + 1

KthSmallest(S, k) == CHOOSE id \in S : RankIn(S, id) = k

RECURSIVE NodeValue(_, _, _)
RECURSIVE IncomingSum(_, _, _, _)
IncomingSum(n, x, id, k) ==
    IF k > Len(edges(n)) THEN 0
    ELSE (IF edges(n)[k].end = id
          THEN edges(n)[k].weight * NodeValue(n, x, edges(n)[k].start)
          ELSE 0) + IncomingSum(n, x, id, k + 1)

NodeValue(n, x, id) ==
    IF id \in InputIds(n) THEN x[RankIn(InputIds(n), id)]
    ELSE Apply(ActivationOf(n, id), IncomingSum(n, x, id, 1))

Reference(n, x) ==
    [k \in 1 .. n.outputs |-> NodeValue(n, x, KthSmallest(OutputIds(n), k))]

NoDuplicateEdges(n) ==
    \A i, j \in 1 .. Len(edges(n)) :
        (edges(n)[i].start = edges(n)[j].start /\ edges(n)[i].end = edges(n)[j].end)
            => i = j

NoEdgeIntoInput(n) == EndsOf(edges(n)) \cap InputIds(n) = {}

Evaluated == pc = "done" /\ eval_status # "none"

Finished == pc \in {"done", "failed"}

Last == Len(compute_stages)

SlotOf(row_nodes, d) == SetMin({i \in 1 .. Len(row_nodes) : row_nodes[i] = d})

\* the column of weights the graph's edges give node d over the slots row_nodes
\* (of two edges with the same endpoints the later one counts)
EdgeWeightColumn(n, row_nodes, d) ==
    [i \in 1 .. Len(row_nodes) |->
        LET hits == {k \in 1 .. Len(edges(n)) :
                        edges(n)[k].start = row_nodes[i] /\ edges(n)[k].end = d}
        IN IF hits = {} THEN 0 ELSE edges(n)[SetMax(hits)].weight]

\* column/activation is what the graph prescribes for node d over row_nodes:
\* a one-hot carry of an available d, or d computed from its incoming edges
ColumnBuiltFor(n, row_nodes, column, activation, d) ==
    \/ /\ activation = "identity"
       /\ Contains(row_nodes, d)
       /\ column = OneHot(Len(row_nodes), SlotOf(row_nodes, d))
    \/ /\ activation = ActivationOf(n, d)
       /\ d \in EndsOf(edges(n))
       /\ \A k \in 1 .. Len(edges(n)) :
             edges(n)[k].end = d => Contains(row_nodes, edges(n)[k].start)
       /\ column = EdgeWeightColumn(n, row_nodes, d)

\* the compiled matrix s holds column j of compute_stages[s] in its column j
MatrixHoldsColumn(s, j) ==
    /\ j <= evaluator.stages[s].ncols
    /\ evaluator.stages[s].nrows = Len(compute_stages[s][j])
    /\ \A row \in 1 .. evaluator.stages[s].nrows :
          evaluator.stages[s].at[row][j] = compute_stages[s][j][row]

\* C1: on a graph without duplicate edges and without edges into inputs,
\* evaluate(x) is the vector of the reference values of the declared outputs,
\* ascending by id, the i-th smallest input id taking x[i].
C1_EvaluateIsReference ==
    (Evaluated /\ NoDuplicateEdges(net) /\ NoEdgeIntoInput(net))
        => eval_status = "ok" /\ state_out = Reference(net, state_in)

\* C1 up to the output count: the first `outputs` entries of evaluate(x) are the
\* reference values; the vector may be longer (see C4).
C1_UpToOutputCount ==
    (Evaluated /\ NoDuplicateEdges(net) /\ NoEdgeIntoInput(net))
        => /\ eval_status = "ok"
           /\ Len(state_out) >= net.outputs
           /\ SubSeq(state_out, 1, net.outputs) = Reference(net, state_in)

\* C2: after a successful fabricate, column k of the final stage is the column
\* of the k-th smallest declared output id, for every k up to the output count.
C2_FinalColumnsFollowSortedOutputs ==
    pc = "done" =>
        \A k \in 1 .. net.outputs :
            LET d == KthSmallest(OutputIds(net), k)
            IN /\ k <= Len(stage_cols[Last])
               /\ stage_cols[Last][k] = d
               /\ ColumnBuiltFor(net, stage_rows[Last], compute_stages[Last][k],
                                 stage_transformations[Last][k], d)
               /\ evaluator.transformations[Last][k] = stage_transformations[Last][k]
               /\ MatrixHoldsColumn(Last, k)

\* outputs declared in descending order, and the reorder moved a column
C2_Witness ==
    /\ pc = "done"
    /\ net.outputs = 2
    /\ IdsOf(outputs(net))[1] > IdsOf(outputs(net))[2]
    /\ next_available_nodes[1] # stage_cols[Last][1]
    /\ Last = 2

\* C3: row i of the first stage is the slot of the i-th smallest input id,
\* whatever order the graph lists its inputs in: every first-stage column holds
\* at row i what the graph prescribes for that input.
C3_FirstStageRowsFollowSortedInputs ==
    Last >= 1 =>
        /\ Len(stage_rows[1]) = net.inputs
        /\ \A i \in 1 .. net.inputs : stage_rows[1][i] = KthSmallest(InputIds(net), i)
        /\ \A j \in 1 .. Len(compute_stages[1]) :
              /\ Len(compute_stages[1][j]) = net.inputs
              /\ ColumnBuiltFor(net, [i \in 1 .. net.inputs |->
                                        KthSmallest(InputIds(net), i)],
                                compute_stages[1][j], stage_transformations[1][j],
                                stage_cols[1][j])
              /\ pc = "done" => MatrixHoldsColumn(1, j)

\* two inputs listed in descending order feed one node with different weights
C3_Witness ==
    /\ pc = "done"
    /\ net.inputs = 2
    /\ IdsOf(inputs(net))[1] > IdsOf(inputs(net))[2]
    /\ \E j \in 1 .. Len(compute_stages[1]) :
          /\ compute_stages[1][j][1] # 0
          /\ compute_stages[1][j][2] # 0
          /\ compute_stages[1][j][1] # compute_stages[1][j][2]

\* C4: after a successful fabricate the final stage has as many columns as
\* the graph declares outputs, and evaluate returns a vector of that length.
C4_FinalStageWidthIsOutputCount ==
    /\ pc = "done" => evaluator.stages[Last].ncols = net.outputs
    /\ Evaluated => eval_status = "ok" /\ Len(state_out) = net.outputs

\* C5: in the compiled schedule the columns of stage i are the rows of
\* stage i + 1, and the first stage has one row per input node.
C5_StageDimensionsChain ==
    pc = "done" =>
        /\ Len(evaluator.stages) = Last
        /\ evaluator.stages[1].nrows = net.inputs
        /\ \A s \in 1 .. (Last - 1) :
              evaluator.stages[s].ncols = evaluator.stages[s + 1].nrows
        /\ \A s \in 1 .. Last :
              Len(evaluator.transformations[s]) = evaluator.stages[s].ncols

\* two stages of different shapes, the first one holding a carry column
C5_Witness ==
    /\ pc = "done"
    /\ Last = 2
    /\ evaluator.stages[1].nrows # evaluator.stages[1].ncols
    /\ evaluator.stages[1].ncols # evaluator.stages[2].ncols
    /\ \E j \in 1 .. Len(stage_transformations[1]) :
          stage_transformations[1][j] = "identity"

\* C6: a graph with an empty edge list gets the error "no edges present, net
\* invalid" and no evaluator, whatever nodes it declares.
C6_NoEdgesIsRejected ==
    (pc # "start" /\ edges(net) = <<>>) =>
        /\ pc = "failed"
        /\ result = ErrNoEdges
        /\ evaluator = NoEvaluator
        /\ compute_stages = <<>>

C6_Witness ==
    /\ pc = "failed"
    /\ edges(net) = <<>>
    /\ Len(nodes(net)) = MaxNodes
    /\ net.outputs = 2

(***************************************************************************)
(* Reachability along ordinary edges.                                      *)
(***************************************************************************)
DeclaredIds(n) == Range(IdsOf(nodes(n)))

Successors(n, S) ==
    {edges(n)[k].end : k \in {j \in 1 .. Len(edges(n)) : edges(n)[j].start \in S}}

RECURSIVE Closure(_, _)
Closure(n, S) ==
    LET T == S \cup Successors(n, S) IN IF T = S THEN S ELSE Closure(n, T)

\* the nodes reached from a by one or more edges
Descendants(n, a) == Closure(n, Successors(n, {a}))

\* some node with incoming edges depends on a non-input node without incoming edges
DependsOnUncomputable(n) ==
    \E g \in DeclaredIds(n) \ (InputIds(n) \cup EndsOf(edges(n))) :
        Descendants(n, g) # {}

HasCycle(n) == \E a \in DeclaredIds(n) : a \in Descendants(n, a)

\* C7: a graph in which a node with incoming edges depends, directly or
\* transitively, on a non-input node without incoming edges is rejected with
\* "can't resolve dependencies, net invalid".
C7_UncomputableDependencyIsRejected ==
    (Finished /\ DependsOnUncomputable(net)) => result = ErrUnresolved

\* C7, the round rule alone: a round that removes no node ends with that error.
C7_RoundWithoutProgressFails ==
    [][(pc = "stage" /\ Len(dependency_graph') = Len(dependency_graph))
          => (pc' = "failed" /\ result' = ErrUnresolved)]_vars

\* C7 on graphs without an edge into an input node.
C7_WithoutEdgesIntoInputs ==
    (Finished /\ DependsOnUncomputable(net) /\ NoEdgeIntoInput(net))
        => result = ErrUnresolved

\* C8: a graph with a cycle of ordinary edges, self-loops and cycles through
\* an input node included, is rejected with "can't resolve dependencies, net
\* invalid".
C8_CycleIsRejected ==
    (Finished /\ HasCycle(net)) => result = ErrUnresolved

\* C8 on graphs without an edge into an input node.
C8_WithoutEdgesIntoInputs ==
    (Finished /\ HasCycle(net) /\ NoEdgeIntoInput(net)) => result = ErrUnresolved

\* the dependency graph was emptied by the last staging round
Resolved == Finished /\ result # ErrNoEdges /\ dependency_graph = <<>>

\* C9: when the dependency graph becomes empty while a declared output is
\* missing from the round's next_available list, fabricate returns
\* "dependencies resolved but not all outputs computable, net invalid"; and
\* when fabricate succeeds every declared output is in that list.
C9_MissingOutputIsReported ==
    /\ (Resolved /\ \E o \in OutputIds(net) : ~Contains(next_available_nodes, o))
          => result = ErrOutputs
    /\ result = "ok" =>
          \A o \in OutputIds(net) : Contains(next_available_nodes, o)

\* C9, the converse alone.
C9_SuccessHasEveryOutput ==
    result = "ok" => \A o \in OutputIds(net) : Contains(next_available_nodes, o)

(***************************************************************************)
(* Reference recurrent semantics: value_t(n) over the recurrent graph,     *)
(* every value before the first step being 0. xs is the sequence of inputs *)
(* since the memory was last zero, t a position of xs.                     *)
(***************************************************************************)
RECURSIVE RecurrentValue(_, _, _, _)
RECURSIVE EdgeSum(_, _, _, _, _, _)
EdgeSum(r, xs, t, es, id, k) ==
    IF k > Len(es) THEN 0
    ELSE (IF es[k].end = id
          THEN es[k].weight * RecurrentValue(r, xs, t, es[k].start)
          ELSE 0) + EdgeSum(r, xs, t, es, id, k + 1)

RecurrentValue(r, xs, t, id) ==
    IF t = 0 THEN 0
    ELSE IF id \in InputIds(r) THEN xs[t][RankIn(InputIds(r), id)]
    ELSE Apply(ActivationOf(r, id),
               EdgeSum(r, xs, t, edges(r), id, 1)
                   + EdgeSum(r, xs, t - 1, recurrent_edges(r), id, 1))

RecurrentReference(r, xs) ==
    [k \in 1 .. r.outputs |->
        RecurrentValue(r, xs, Len(xs), KthSmallest(OutputIds(r), k))]

NoDuplicateRecurrentEdges(r) ==
    \A i, j \in 1 .. Len(recurrent_edges(r)) :
        (/\ recurrent_edges(r)[i].start = recurrent_edges(r)[j].start
         /\ recurrent_edges(r)[i].end = recurrent_edges(r)[j].end) => i = j

\* a recurrent evaluate call has returned or panicked since the last reset
Stepped == rpc \in {"ready", "panic"} /\ history # <<>>

\* C10: on every accepted recurrent graph, every recurrent evaluate call
\* returns the reference recurrent values of the declared outputs for the
\* inputs fed so far (all values 0 before the first step).
C10_RecurrentEvaluateIsReference ==
    Stepped => /\ rpc = "ready"
               /\ user_out = RecurrentReference(recurrent, history)

\* C10 where the final stage of the unrolled schedule has exactly one column
\* per unrolled output (see C4), on graphs without duplicate edges.
C10_WithFinalStageOfOutputWidth ==
    (/\ Stepped
     /\ evaluator.stages[Last].ncols = Len(outputs(net))
     /\ NoDuplicateEdges(recurrent) /\ NoDuplicateRecurrentEdges(recurrent))
        => /\ rpc = "ready"
           /\ user_out = RecurrentReference(recurrent, history)

\* C10, empty recurrent edge set: each step returns the feedforward reference
\* of that step's input alone.
C10_WithoutRecurrentEdges ==
    (/\ Stepped
     /\ recurrent_edges(recurrent) = <<>>
     /\ evaluator.stages[Last].ncols = Len(outputs(net))
     /\ NoDuplicateEdges(recurrent) /\ NoEdgeIntoInput(recurrent))
        => /\ rpc = "ready"
           /\ user_out = Reference(recurrent, history[Len(history)])

(***************************************************************************)
(* The unrolled graph and the recurrent evaluator's memory.                *)
(***************************************************************************)
Unrolled == rpc \notin {"off", "unroll"}

\* the evaluator as MatrixRecurrentFabricator::fabricate returned it
Fabricated == rpc = "ready" /\ steps = 0

\* C11 as stated: the unrolled graph has as many extra inputs as extra
\* outputs, and that number is the memory size the fabricator allocates.
C11_ExtraInputsEqualExtraOutputs ==
    Unrolled =>
        /\ Len(inputs(net)) - Len(inputs(recurrent))
               = Len(outputs(net)) - Len(outputs(recurrent))
        /\ Fabricated =>
               Len(internal) = Len(outputs(net)) - Len(outputs(recurrent))

\* C11, amended: the number of extra inputs of the unrolled graph equals the
\* number of ALL its outputs (an original output has a wrapper input too), and
\* that number is the memory size the fabricator allocates.
C11_ExtraInputsEqualUnrolledOutputs ==
    Unrolled =>
        /\ Len(inputs(net)) - Len(inputs(recurrent)) = Len(outputs(net))
        /\ Fabricated => Len(internal) = Len(outputs(net))

C11_Witness ==
    /\ Fabricated
    /\ Len(outputs(net)) > Len(outputs(recurrent))
    /\ Len(internal) = Len(outputs(net))

\* the memory size MatrixRecurrentFabricator::fabricate allocated
MemorySize == Len(outputs(net))

\* the recurrent fabricator returned an evaluator (which may have panicked
\* in a later evaluate call)
Accepted == pc = "done" /\ rpc \in {"ready", "panic"}

\* C12: the memory vector is all zeros right after fabrication and keeps the
\* length fixed at fabrication after every evaluate and every reset call.
C12_MemoryLengthIsFixed ==
    Accepted =>
        /\ Len(internal) = MemorySize
        /\ Fabricated => internal = Zeros(MemorySize)

\* C12 where the final stage of the unrolled schedule has one column per
\* unrolled output (see C4): the length is kept and no call panics.
C12_WithFinalStageOfOutputWidth ==
    (Accepted /\ evaluator.stages[Last].ncols = MemorySize)
        => /\ rpc = "ready"
           /\ Len(internal) = MemorySize
           /\ Fabricated => internal = Zeros(MemorySize)

\* a step of the behaviour that is a recurrent evaluate call which returned
EvaluateReturned == steps' = steps + 1 /\ rpc' = "ready"

\* C13 as stated: evaluate runs the feedforward evaluator on the user input
\* chained with the memory, returns the first `outputs` entries of the result
\* and keeps the entries after them as the new memory.
C13_MemoryIsRemainderOfResult ==
    [][EvaluateReturned =>
          /\ state_in' = history'[Len(history')] \o internal
          /\ state_out' = evaluate(evaluator, state_in').state
          /\ user_out' = SubSeq(state_out', 1, outputs_count)
          /\ internal' = SubSeq(state_out', outputs_count + 1, Len(state_out'))]_vars

\* C13, amended: evaluate runs the feedforward evaluator on the user input
\* chained with the memory, returns the first `outputs` entries of the result
\* and keeps the WHOLE result, those first entries included, as the new memory.
C13_MemoryIsWholeResult ==
    [][EvaluateReturned =>
          /\ state_in' = history'[Len(history')] \o internal
          /\ state_out' = evaluate(evaluator, state_in').state
          /\ user_out' = SubSeq(state_out', 1, outputs_count)
          /\ internal' = state_out']_vars

C13_Witness ==
    /\ rpc = "ready"
    /\ steps >= 2
    /\ history # <<>>
    /\ internal = state_out
    /\ user_out = SubSeq(internal, 1, outputs_count)
    /\ Len(internal) > outputs_count
    /\ \E i \in 1 .. Len(internal) : internal[i] # 0

\* the evaluate calls of xs[t], ..., on an evaluator whose memory is `memory`:
\* the last call's return value, or the panic of the first call that panics
RECURSIVE RunFrom(_, _, _, _, _, _)
RunFrom(ev, outputs_len, memory, xs, t, returned) ==
    IF t > Len(xs) THEN [status |-> "ok", output |-> returned]
    ELSE LET r == evaluate(ev, ChainedInput(xs[t], memory))
             stored == StoredInternal(r.state, outputs_len)
         IN IF r.status = "panic" \/ Len(stored) < outputs_len
            THEN [status |-> "panic", output |-> <<>>]
            ELSE RunFrom(ev, outputs_len, stored, xs, t + 1,
                         SliceOfOutputs(stored, outputs_len))

\* the run of xs on the evaluator as the fabricator returned it
FreshRun(xs) ==
    RunFrom(evaluator, outputs_count, Zeros(MemorySize), xs, 1, <<>>)

\* evaluate calls were made, then a reset, then evaluate calls again
SteppedAfterReset == Accepted /\ history # <<>> /\ steps > Len(history)

\* C14: the calls made since the last reset_internal_state return, step by
\* step, what the same calls return on a freshly fabricated evaluator.
C14_ResetThenRunIsFreshRun ==
    SteppedAfterReset =>
        /\ rpc = "ready" <=> FreshRun(history).status = "ok"
        /\ rpc = "ready" => user_out = FreshRun(history).output

\* C14 where the final stage of the unrolled schedule has one column per
\* unrolled output (see C4).
C14_WithFinalStageOfOutputWidth ==
    (SteppedAfterReset /\ evaluator.stages[Last].ncols = MemorySize)
        => /\ rpc = "ready"
           /\ FreshRun(history).status = "ok"
           /\ user_out = FreshRun(history).output

\* a step of the behaviour that is a reset_internal_state call
ResetCalled == rpc = "ready" /\ rpc' = "ready" /\ steps' = steps

\* C15: a reset leaves the memory all zeros at its length and the schedule and
\* the output count as they were, and a second reset changes nothing more.
C15_ResetIsIdempotent ==
    [][ResetCalled =>
          /\ internal' = Zeros(Len(internal))
          /\ evaluator' = evaluator
          /\ outputs_count' = outputs_count
          /\ ZeroedInternal(internal') = internal']_vars

C15_Witness ==
    /\ rpc = "ready"
    /\ steps > 0
    /\ history = <<>>
    /\ internal = Zeros(Len(state_out))
    /\ \E i \in 1 .. Len(state_out) : state_out[i] # 0

(***************************************************************************)
(* The ids of the unrolled graph.                                          *)
(***************************************************************************)
OriginalIds == Range(IdsOf(nodes(recurrent)))

\* the id the unrolled graph shows for the original node id: re-identified
\* inputs lead its input list, re-identified outputs lead its output list,
\* both ascending by original id; hidden nodes keep their id
NewIdOf(id) ==
    IF id \in InputIds(recurrent)
    THEN inputs(net)[RankIn(InputIds(recurrent), id)].id
    ELSE IF id \in OutputIds(recurrent)
    THEN outputs(net)[RankIn(OutputIds(recurrent), id)].id
    ELSE id

WithNewIds(es) ==
    [i \in 1 .. Len(es) |->
        Edge(NewIdOf(es[i].start), NewIdOf(es[i].end), es[i].weight)]

\* C16: in the unrolled graph the ids of inputs, outputs and wrappers are none
\* of the original ids, all node ids are pairwise distinct, and every endpoint
\* of an ordinary or recurrent edge that named an original input or output
\* names that node's new id.
C16_FreshIdsAndPatchedEdges ==
    Unrolled =>
        /\ \A i \in 1 .. Len(inputs(net)) : inputs(net)[i].id \notin OriginalIds
        /\ \A i \in 1 .. Len(outputs(net)) : outputs(net)[i].id \notin OriginalIds
        /\ Injective(IdsOf(nodes(net)))
        /\ ReIdentified(recurrent).known_edges = WithNewIds(edges(recurrent))
        /\ ReIdentified(recurrent).known_recurrent_edges
               = WithNewIds(recurrent_edges(recurrent))
        /\ SubSeq(edges(net), 1, Len(edges(recurrent)))
               = WithNewIds(edges(recurrent))

\* a gap in the original ids, an input and an output re-identified, a wrapper
\* pair, and edges patched at both ends
C16_Witness ==
    /\ Unrolled
    /\ \E id \in 0 .. MaxId : id \notin OriginalIds /\ id < SetMax(OriginalIds)
    /\ Len(outputs(net)) > Len(outputs(recurrent))
    /\ \E i \in 1 .. Len(edges(recurrent)) :
          /\ edges(recurrent)[i].start \in InputIds(recurrent)
          /\ edges(recurrent)[i].end \in OutputIds(recurrent)
    /\ \E i \in 1 .. Len(recurrent_edges(recurrent)) :
          recurrent_edges(recurrent)[i].end \in OutputIds(recurrent)

\* unroll has returned and the feedforward fabricator has not started (the
\* two graphs do not change afterwards)
JustUnrolled == rpc = "fabricate" /\ pc = "start"

\* the k-th smallest id that no original node has
KthFreshId(k) ==
    CHOOSE c \in 0 .. (Cardinality(OriginalIds) + k) :
        /\ c \notin OriginalIds
        /\ Cardinality({j \in 0 .. c : j \notin OriginalIds}) = k

\* every edge endpoint that named old_id names new_id after re-identification
PatchedTo(old_id, new_id) ==
    /\ \A j \in 1 .. Len(edges(recurrent)) :
          /\ edges(recurrent)[j].start = old_id
                => ReIdentified(recurrent).known_edges[j].start = new_id
          /\ edges(recurrent)[j].end = old_id
                => ReIdentified(recurrent).known_edges[j].end = new_id
    /\ \A j \in 1 .. Len(recurrent_edges(recurrent)) :
          /\ recurrent_edges(recurrent)[j].start = old_id
                => ReIdentified(recurrent).known_recurrent_edges[j].start = new_id
          /\ recurrent_edges(recurrent)[j].end = old_id
                => ReIdentified(recurrent).known_recurrent_edges[j].end = new_id

\* the original inputs ins and then the original outputs outs, in the order of
\* these lists, have the lowest fresh ids and lead the unrolled input and
\* output lists
LowestFreshIdsInOrder(ins, outs) ==
    /\ \A i \in 1 .. Len(ins) :
          /\ inputs(net)[i].id = KthFreshId(i)
          /\ PatchedTo(ins[i].id, inputs(net)[i].id)
    /\ \A k \in 1 .. Len(outs) :
          /\ outputs(net)[k].id = KthFreshId(Len(ins) + k)
          /\ PatchedTo(outs[k].id, outputs(net)[k].id)

FabricatedEvaluator ==
    [stages |-> [s \in 1 .. Len(compute_stages) |-> get_arr2(compute_stages[s])],
     transformations |-> stage_transformations]

Rounds ==
    Len(compute_stages)
        + (IF pc = "failed" /\ result # ErrNoEdges THEN 1 ELSE 0)

EndNodes == EndsOf(edges(net))

\* C19: fabricate terminates: the staging loop runs at most as many rounds as
\* there are distinct edge end nodes, every round either removing a node from
\* the dependency graph (and looping again only while nodes are left) or
\* returning "can't resolve dependencies, net invalid".
C19_FabricateTerminates ==
    /\ [](/\ Rounds <= Cardinality(EndNodes)
          /\ pc = "stage" =>
                /\ dependency_graph # <<>>
                /\ Len(dependency_graph) + Rounds <= Cardinality(EndNodes))
    /\ [][pc = "stage" =>
             /\ \/ Len(dependency_graph') < Len(dependency_graph)
                \/ result' = ErrUnresolved
             /\ pc' = "stage" => Rounds' = Rounds + 1]_vars

\* a graph that needs as many rounds as it has end nodes, more than one
C19_Witness ==
    /\ pc = "done"
    /\ Rounds = Cardinality(EndNodes)
    /\ Rounds = MaxNodes - 1

\* the stage committed last
LastStage == Len(compute_stages)

\* column j of stage s hands row value a on unchanged: a one-hot column with
\* the identity as its transformation
IsCarryOf(s, j, a) ==
    /\ stage_cols[s][j] = a
    /\ stage_transformations[s][j] = "identity"
    /\ Contains(stage_rows[s], a)
    /\ compute_stages[s][j] = OneHot(Len(stage_rows[s]), SlotOf(stage_rows[s], a))

\* node d is the result of a computed column of one of the stages 1 .. s
ComputedBy(s, d) ==
    \E t \in 1 .. s : \E j \in 1 .. Len(stage_cols[t]) :
        stage_cols[t][j] = d /\ stage_transformations[t][j] # "identity"

\* after a stage that leaves nodes in the dependency graph, every dependency
\* of such a node that was available before the stage is carried by it
DependenciesCarried ==
    (pc = "stage" /\ LastStage >= 1) =>
        \A i \in 1 .. Len(dependency_graph) :
            \A k \in 1 .. Len(dependency_graph[i].dependencies) :
                LET a == dependency_graph[i].dependencies[k].start
                IN Contains(stage_rows[LastStage], a) =>
                      \E j \in 1 .. Len(stage_cols[LastStage]) :
                          IsCarryOf(LastStage, j, a)

\* a value available before stage s is available before stage s + 1 as long
\* as a node that depends on it is not computed yet
StaysAvailable ==
    pc \in {"stage", "done"} =>
        \A s \in 1 .. LastStage - 1 :
            \A k \in 1 .. Len(edges(net)) :
                LET e == edges(net)[k]
                IN (Contains(stage_rows[s], e.start) /\ ~ComputedBy(s, e.end)) =>
                      Contains(stage_rows[s + 1], e.start)

\* C20: after every stage, each dependency edge of a node still uncomputed
\* whose start id was available is carried as a one-hot column with identity
\* activation; hence an available value stays available in every later stage
\* until every node that depends on it has been computed.
C20_AvailableDependenciesAreCarried ==
    /\ DependenciesCarried
    /\ StaysAvailable

C20_WithoutEdgesIntoInputs ==
    NoEdgeIntoInput(net) => C20_AvailableDependenciesAreCarried

\* the number of slots of seq that hold x
Occurrences(seq, x) == Cardinality({i \in 1 .. Len(seq) : seq[i] = x})

Staged == pc \in {"stage", "done"} /\ LastStage >= 1

\* an output available before stage s is available after it, through the
\* last stage
OutputsStayAvailable ==
    Staged =>
        /\ \A s \in 1 .. LastStage : \A w \in Range(wanted_nodes) :
              Contains(stage_rows[s], w) => Contains(stage_cols[s], w)
        /\ \A s \in 1 .. LastStage - 1 : stage_rows[s + 1] = stage_cols[s]
        /\ \A w \in Range(wanted_nodes) :
              Contains(stage_rows[LastStage], w) =>
                  Contains(next_available_nodes, w)

\* a round of the staging loop has run; its available set is the rows of the
\* stage it committed, or available_nodes when it returned an error
RoundRun == Staged \/ (pc = "failed" /\ result # ErrNoEdges)

RoundAvailable ==
    IF pc = "failed" THEN available_nodes ELSE stage_rows[LastStage]

\* no round of the loop pushes an available output twice
OutputsPushedOnce ==
    RoundRun =>
        \A w \in Range(wanted_nodes) :
            Contains(RoundAvailable, w) =>
                Occurrences(next_available_nodes, w) = 1

\* no compiled stage holds two carry columns of one output
OutputsCarriedOnce ==
    Staged =>
        \A s \in 1 .. LastStage : \A w \in Range(wanted_nodes) :
            Cardinality({j \in 1 .. Len(stage_cols[s]) : IsCarryOf(s, j, w)}) <= 1

C21_DependencyCarryOfOutput ==
    /\ pc = "failed" /\ result = ErrUnresolved
    /\ \E w \in Range(wanted_nodes) :
          /\ Contains(available_nodes, w)
          /\ \E i \in 1 .. Len(dependency_graph) :
                \E k \in 1 .. Len(dependency_graph[i].dependencies) :
                    dependency_graph[i].dependencies[k].start = w

\* positions k1 < k2 of the edge list hold edges with the same start and end
DuplicatePair(n, k1, k2) ==
    /\ k1 < k2
    /\ edges(n)[k1].start = edges(n)[k2].start
    /\ edges(n)[k1].end = edges(n)[k2].end

\* the last position of the edge list that holds an edge from start to end
LastEdge(n, start, end) ==
    SetMax({k \in 1 .. Len(edges(n)) :
               edges(n)[k].start = start /\ edges(n)[k].end = end})

\* column j of stage s is computed from the incoming edges of its node
IsComputedColumn(s, j) == stage_transformations[s][j] # "identity"

\* C22: when two edges share start and end, the column computed for end holds
\* at every slot of start the weight of the later edge of the edge list only;
\* the compiled matrix holds the same entry.
C22_LaterDuplicateEdgeWins ==
    Staged =>
        \A s \in 1 .. LastStage : \A j \in 1 .. Len(stage_cols[s]) :
            \A k1, k2 \in 1 .. Len(edges(net)) :
                (/\ DuplicatePair(net, k1, k2)
                 /\ IsComputedColumn(s, j)
                 /\ edges(net)[k2].end = stage_cols[s][j]) =>
                    \A row \in 1 .. Len(stage_rows[s]) :
                        stage_rows[s][row] = edges(net)[k2].start =>
                            LET w == edges(net)[LastEdge(net, edges(net)[k2].start,
                                                        edges(net)[k2].end)].weight
                            IN /\ compute_stages[s][j][row] = w
                               /\ pc = "done" =>
                                     evaluator.stages[s].at[row][j] = w

\* a column computed for the end of two edges of different weights, the
\* heavier one first
C22_Witness ==
    /\ pc = "done"
    /\ \E s \in 1 .. LastStage : \E j \in 1 .. Len(stage_cols[s]) :
          \E k1, k2 \in 1 .. Len(edges(net)) :
              /\ DuplicatePair(net, k1, k2)
              /\ edges(net)[k1].weight > edges(net)[k2].weight
              /\ IsComputedColumn(s, j)
              /\ edges(net)[k2].end = stage_cols[s][j]
              /\ Contains(stage_rows[s], edges(net)[k2].start)
              /\ compute_stages[s][j][SlotOf(stage_rows[s], edges(net)[k2].start)]
                    = edges(net)[k2].weight

\* every start of an edge into the node of a computed column was available
\* before the stage, whatever the edge's weight
ComputedAfterEveryStart ==
    Staged =>
        \A s \in 1 .. LastStage : \A j \in 1 .. Len(stage_cols[s]) :
            IsComputedColumn(s, j) =>
                \A k \in 1 .. Len(edges(net)) :
                    edges(net)[k].end = stage_cols[s][j] =>
                        Contains(stage_rows[s], edges(net)[k].start)

\* after a stage that leaves nodes in the dependency graph, the available
\* start of a zero-weight edge into such a node is carried by the stage
ZeroWeightDependenciesCarried ==
    (pc = "stage" /\ LastStage >= 1) =>
        \A i \in 1 .. Len(dependency_graph) :
            \A k \in 1 .. Len(dependency_graph[i].dependencies) :
                LET e == dependency_graph[i].dependencies[k]
                IN (e.weight = 0 /\ Contains(stage_rows[LastStage], e.start)) =>
                      \E j \in 1 .. Len(stage_cols[LastStage]) :
                          IsCarryOf(LastStage, j, e.start)

\* the column computed for the end of a zero-weight edge holds 0 at the slot
\* of its start (unless a later edge with the same endpoints overwrites it)
ZeroWeightEntryIsZero ==
    Staged =>
        \A s \in 1 .. LastStage : \A j \in 1 .. Len(stage_cols[s]) :
            \A k \in 1 .. Len(edges(net)) :
                (/\ IsComputedColumn(s, j)
                 /\ edges(net)[k].end = stage_cols[s][j]
                 /\ edges(net)[k].weight = 0
                 /\ LastEdge(net, edges(net)[k].start, edges(net)[k].end) = k) =>
                    \A row \in 1 .. Len(stage_rows[s]) :
                        stage_rows[s][row] = edges(net)[k].start =>
                            compute_stages[s][j][row] = 0

\* C23: an edge of weight 0 is an edge like any other: its end is computed
\* only after its start is available, its available start is carried while
\* its end is not computable, and the compiled column holds 0 at its slot.
C23_ZeroWeightEdgeIsAnEdge ==
    /\ ComputedAfterEveryStart
    /\ ZeroWeightDependenciesCarried
    /\ ZeroWeightEntryIsZero

C23_WithoutEdgesIntoInputs ==
    NoEdgeIntoInput(net) => C23_ZeroWeightEdgeIsAnEdge

\* the start of a zero-weight edge carried while the edge's end waits for
\* another dependency, on a graph without edges into inputs
C23_ZeroWeightCarry ==
    /\ pc = "stage" /\ LastStage >= 1
    /\ NoEdgeIntoInput(net)
    /\ \E i \in 1 .. Len(dependency_graph) :
          \E k \in 1 .. Len(dependency_graph[i].dependencies) :
              LET e == dependency_graph[i].dependencies[k]
              IN /\ e.weight = 0
                 /\ \E j \in 1 .. Len(stage_cols[LastStage]) :
                       IsCarryOf(LastStage, j, e.start)

(***************************************************************************)
(* The sparse feedforward fabricator (sparse_matrix/fabricator.rs): the    *)
(* same staging loop, with every stage kept as three parallel vectors      *)
(* (column indices, row indices, data) and compiled by get_sparse.         *)
(* Indices are the source's 0-based usize values.                          *)
(***************************************************************************)
UsizeBits == 16

\* usize::MAX, the marker of the final reorder, at the modelled width
UsizeMax == 2 ^ UsizeBits - 1

EmptySparseStage ==
    [column_index |-> 0, stage_column_indices |-> <<>>,
     stage_row_indices |-> <<>>, stage_data |-> <<>>, transformations |-> <<>>,
     next_available_nodes |-> <<>>]

NoNodeEntries ==
    [node_column_indices |-> <<>>, node_row_indices |-> <<>>, node_data |-> <<>>]

\* lines 112-122: one entry per dependency and available slot that match
RECURSIVE NodeEntries(_, _, _, _, _, _)
NodeEntries(node, dependencies, available, column_index, k, row) ==
    IF k > Len(dependencies) THEN node
    ELSE IF row > Len(available)
    THEN NodeEntries(node, dependencies, available, column_index, k + 1, 1)
    ELSE IF dependencies[k].start = available[row]
    THEN NodeEntries(
            [node_column_indices |-> Append(node.node_column_indices, column_index),
             node_row_indices |-> Append(node.node_row_indices, row - 1),
             node_data |-> Append(node.node_data, dependencies[k].weight)],
            dependencies, available, column_index, k, row + 1)
    ELSE NodeEntries(node, dependencies, available, column_index, k, row + 1)

\* lines 128-142
SparsePushNode(acc, node, activation, id) ==
    [column_index |-> acc.column_index + 1,
     stage_column_indices |-> acc.stage_column_indices \o node.node_column_indices,
     stage_row_indices |-> acc.stage_row_indices \o node.node_row_indices,
     stage_data |-> acc.stage_data \o node.node_data,
     transformations |-> Append(acc.transformations, activation),
     next_available_nodes |-> Append(acc.next_available_nodes, id)]

\* lines 149-154 and 167-175: a carry is one entry of value 1.0
SparsePushCarry(acc, row_index, id) ==
    [column_index |-> acc.column_index + 1,
     stage_column_indices |-> Append(acc.stage_column_indices, acc.column_index),
     stage_row_indices |-> Append(acc.stage_row_indices, row_index),
     stage_data |-> Append(acc.stage_data, 1),
     transformations |-> Append(acc.transformations, "identity"),
     next_available_nodes |-> Append(acc.next_available_nodes, id)]

\* lines 147-156
RECURSIVE SparseCarries(_, _, _, _)
SparseCarries(acc, node_row_indices, available, i) ==
    IF i > Len(node_row_indices) THEN acc
    ELSE LET row_index == node_row_indices[i]
             id == available[row_index + 1]
         IN IF ~Contains(acc.next_available_nodes, id)
            THEN SparseCarries(SparsePushCarry(acc, row_index, id),
                               node_row_indices, available, i + 1)
            ELSE SparseCarries(acc, node_row_indices, available, i + 1)

\* lines 105-160, one key of the dependency map
SparseProcessNode(acc, entry, available, n) ==
    LET node == NodeEntries(NoNodeEntries, entry.dependencies, available,
                            acc.column_index, 1, 1)
    IN IF Computable(entry.dependencies, available)
       THEN SparsePushNode(acc, node, ActivationOf(n, entry.node), entry.node)
       ELSE SparseCarries(acc, node.node_row_indices, available, 1)

RECURSIVE SparseDependencyLoop(_, _, _, _, _)
SparseDependencyLoop(acc, graph, k, available, n) ==
    IF k > Len(graph) THEN acc
    ELSE SparseDependencyLoop(SparseProcessNode(acc, graph[k], available, n),
                              graph, k + 1, available, n)

\* lines 163-181
RECURSIVE SparseKeepWanted(_, _, _, _, _)
SparseKeepWanted(acc, wanted, available, w, index) ==
    IF w > Len(wanted) THEN acc
    ELSE IF index > Len(available)
    THEN SparseKeepWanted(acc, wanted, available, w + 1, 1)
    ELSE IF /\ available[index] = wanted[w]
            /\ ~Contains(acc.next_available_nodes, available[index])
         THEN SparseKeepWanted(SparsePushCarry(acc, index - 1, available[index]),
                               wanted, available, w, index + 1)
         ELSE SparseKeepWanted(acc, wanted, available, w, index + 1)

\* lines 199-231: the final reorder. Every entry starts at usize::MAX and gets
\* its new column when the node of its old column is a wanted node;
\* reordered_transformations[new_column_index] panics past the end.
RECURSIVE SparseReorderLoop(_, _, _, _)
SparseReorderLoop(r, acc, wanted, k) ==
    IF r.panicked \/ k > Len(acc.next_available_nodes) THEN r
    ELSE LET index == WantedIndex(wanted, acc.next_available_nodes[k])
             old_column_index == k - 1
             new_column_index == index - 1
         IN IF index = 0 THEN SparseReorderLoop(r, acc, wanted, k + 1)
            ELSE IF index > Len(r.reordered_transformations)
            THEN [r EXCEPT !.panicked = TRUE]
            ELSE SparseReorderLoop(
                    [reordered_stage_column_indices |->
                        [t \in 1 .. Len(acc.stage_column_indices) |->
                            IF acc.stage_column_indices[t] = old_column_index
                            THEN new_column_index
                            ELSE r.reordered_stage_column_indices[t]],
                     reordered_transformations |->
                        [r.reordered_transformations EXCEPT
                            ![index] = acc.transformations[k]],
                     matched_wanted_count |-> r.matched_wanted_count + 1,
                     panicked |-> FALSE],
                    acc, wanted, k + 1)

SparseReorder(acc, wanted) ==
    SparseReorderLoop(
        [reordered_stage_column_indices |->
            [t \in 1 .. Len(acc.stage_column_indices) |-> UsizeMax],
         reordered_transformations |-> acc.transformations,
         matched_wanted_count |-> 0,
         panicked |-> FALSE],
        acc, wanted, 1)

Triplets(col_inds, row_inds, data) ==
    [col_inds |-> col_inds, row_inds |-> row_inds, data |-> data]

\* lines 40-46: the shape is one more than the largest index; the addition
\* overflows on usize::MAX (a panic, or 0 columns and then the panic of
\* from_triplets on an index outside the shape)
GetSparsePanics(triplets) ==
    \/ SetMax(Range(triplets.col_inds)) = UsizeMax
    \/ SetMax(Range(triplets.row_inds)) = UsizeMax

RECURSIVE SumOfEntries(_, _, _, _)
SumOfEntries(triplets, row, col, t) ==
    IF t > Len(triplets.data) THEN 0
    ELSE (IF triplets.row_inds[t] = row /\ triplets.col_inds[t] = col
          THEN triplets.data[t] ELSE 0)
         + SumOfEntries(triplets, row, col, t + 1)

\* TriMat::from_triplets(..).to_csr(): entries at the same place are summed
get_sparse(triplets) ==
    LET colums == SetMax(Range(triplets.col_inds)) + 1
        rows == SetMax(Range(triplets.row_inds)) + 1
    IN [nrows |-> rows, ncols |-> colums,
        at |-> [row \in 1 .. rows |->
                  [col \in 1 .. colums |->
                      SumOfEntries(triplets, row - 1, col - 1, 1)]],
        stored |-> {<<triplets.row_inds[t] + 1, triplets.col_inds[t] + 1>> :
                       t \in 1 .. Len(triplets.data)}]

\* lines 95-246: the staging loop, run to its end
RECURSIVE SparseLoop(_, _)
SparseLoop(st, n) ==
    IF st.dependency_graph = <<>> \/ st.result # "none" THEN st
    ELSE LET computed == SparseDependencyLoop(EmptySparseStage, st.dependency_graph,
                                              1, st.available_nodes, n)
             acc == SparseKeepWanted(computed, st.wanted_nodes, st.available_nodes,
                                     1, 1)
             remaining == RemoveResolved(st.dependency_graph,
                                         acc.next_available_nodes)
             r == SparseReorder(acc, st.wanted_nodes)
             Pushed(column_indices, transformations) ==
                 [st EXCEPT
                    !.dependency_graph = remaining,
                    !.dependency_count = Len(remaining),
                    !.compute_stages =
                        Append(@, Triplets(column_indices, acc.stage_row_indices,
                                           acc.stage_data)),
                    !.stage_transformations = Append(@, transformations),
                    !.stage_rows = Append(@, st.available_nodes),
                    !.stage_cols = Append(@, acc.next_available_nodes),
                    !.available_nodes = acc.next_available_nodes]
         IN IF NoProgress(remaining, st.dependency_count)
            THEN [st EXCEPT !.result = ErrUnresolved]
            ELSE IF remaining # <<>>
            THEN SparseLoop(Pushed(acc.stage_column_indices, acc.transformations), n)
            ELSE IF r.panicked THEN [st EXCEPT !.result = "panic"]
            ELSE IF r.matched_wanted_count < Len(st.wanted_nodes)
            THEN [st EXCEPT !.result = ErrOutputs]
            ELSE Pushed(r.reordered_stage_column_indices,
                        r.reordered_transformations)

\* lines 55-259
SparseFabricated(n, order) ==
    LET graph == BuildDependencyGraph(edges(n), order)
        st == SparseLoop([dependency_graph |-> graph,
                          dependency_count |-> Len(graph),
                          available_nodes |-> sort_unstable(IdsOf(inputs(n))),
                          wanted_nodes |-> sort_unstable(IdsOf(outputs(n))),
                          compute_stages |-> <<>>,
                          stage_transformations |-> <<>>,
                          stage_rows |-> <<>>,
                          stage_cols |-> <<>>,
                          result |-> "none"], n)
    IN IF NoEdgesPresent(graph) THEN [st EXCEPT !.result = ErrNoEdges]
       ELSE IF st.result # "none" THEN st
       ELSE IF \E s \in 1 .. Len(st.compute_stages) :
                  GetSparsePanics(st.compute_stages[s])
       THEN [st EXCEPT !.result = "panic"]
       ELSE [st EXCEPT !.result = "ok"]

\* the dense fabricator has built its dependency map and not yet used it
DenseMapFresh ==
    \/ pc = "stage" /\ compute_stages = <<>>
    \/ pc = "failed" /\ result = ErrNoEdges

\* FeedForwardSparseMatrixFabricator::fabricate on the same graph, its
\* HashMap iterating in the order of the dense fabricator's
SparseFabricate ==
    /\ sparse_pc = "start"
    /\ DenseMapFresh
    /\ LET order == [i \in 1 .. Len(dependency_graph) |-> dependency_graph[i].node]
           st == SparseFabricated(net, order)
       IN /\ sparse_result' = st.result
          /\ sparse_pc' = IF st.result = "ok" THEN "done" ELSE "failed"
          /\ sparse_compute_stages' = st.compute_stages
          /\ sparse_stage_transformations' = st.stage_transformations
          /\ sparse_stage_rows' = st.stage_rows
          /\ sparse_stage_cols' = st.stage_cols
          /\ sparse_evaluator' =
               IF st.result = "ok"
               THEN [stages |-> [s \in 1 .. Len(st.compute_stages) |->
                                    get_sparse(st.compute_stages[s])],
                     transformations |-> st.stage_transformations]
               ELSE sparse_evaluator
    /\ UNCHANGED <<net, pc, result, fvars, evaluator, state_in, state_out,
                   eval_status, rvars, sparse_state_out, sparse_eval_status,
                   nvars>>

NextSparse == FabricateStart \/ Stage \/ SparseFabricate

SpecSparse == Init /\ [][NextSparse]_vars

BothFinished == Finished /\ sparse_pc \in {"done", "failed"}

SameResult == BothFinished => sparse_result = result

SameShapes ==
    (BothFinished /\ result = "ok" /\ sparse_result = "ok") =>
        /\ Len(sparse_evaluator.stages) = Len(evaluator.stages)
        /\ \A s \in 1 .. Len(evaluator.stages) :
              /\ sparse_evaluator.stages[s].nrows = evaluator.stages[s].nrows
              /\ sparse_evaluator.stages[s].ncols = evaluator.stages[s].ncols

SameEntries ==
    (BothFinished /\ result = "ok" /\ sparse_result = "ok") =>
        \A s \in 1 .. Len(evaluator.stages) :
            \A row \in 1 .. evaluator.stages[s].nrows :
                \A col \in 1 .. evaluator.stages[s].ncols :
                    (/\ s <= Len(sparse_evaluator.stages)
                     /\ row <= sparse_evaluator.stages[s].nrows
                     /\ col <= sparse_evaluator.stages[s].ncols) =>
                        sparse_evaluator.stages[s].at[row][col]
                            = evaluator.stages[s].at[row][col]

\* C24: run with the same iteration order of the dependency map, the sparse
\* fabricator ends as the dense one does (success or the same error) and on
\* success its stage matrices have the shapes and the entries of the dense
\* fabricator's, stage by stage.
C24_SparseStagesEqualDenseStages ==
    /\ SameResult
    /\ SameShapes
    /\ SameEntries

\* the last available slot of every dense stage feeds some column
LastSlotFeeds ==
    \A s \in 1 .. Len(evaluator.stages) :
        \E col \in 1 .. evaluator.stages[s].ncols :
            evaluator.stages[s].at[evaluator.stages[s].nrows][col] # 0

C24_OnPlainGraphs ==
    (/\ BothFinished
     /\ NoDuplicateEdges(net)
     /\ result = "ok" =>
           /\ evaluator.stages[Last].ncols = Len(wanted_nodes)
           /\ LastSlotFeeds) =>
        C24_SparseStagesEqualDenseStages

\* both fabricators succeed with two equal stages, the first holding a carry
C24_PlainWitness ==
    /\ BothFinished
    /\ result = "ok" /\ sparse_result = "ok"
    /\ Last = 2
    /\ SameShapes /\ SameEntries
    /\ \E j \in 1 .. Len(stage_transformations[1]) :
          stage_transformations[1][j] = "identity"

\* the dense fabricator succeeds on a graph without edges into inputs and the
\* sparse one panics
C24_SparsePanics ==
    /\ BothFinished /\ NoEdgeIntoInput(net) /\ NoDuplicateEdges(net)
    /\ result = "ok" /\ sparse_result = "panic"

(***************************************************************************)
(* The sparse feedforward evaluator                                        *)
(* (sparse_matrix/feedforward/evaluator.rs) next to the dense one, both    *)
(* as functions of a schedule and an input. A CscMatrix is its shape, its  *)
(* values and the set of places it stores; a place not stored reads 0.     *)
(***************************************************************************)
MaxStageDim == 2
MaxStateValue == 1

\* (&state).into(): the dense state keeps the entries that are not 0
CscFromDense(state) ==
    [ncols |-> Len(state), at |-> state,
     stored |-> {index \in 1 .. Len(state) : state[index] # 0}]

RECURSIVE SparseDotColumn(_, _, _, _)
SparseDotColumn(state, matrix, col, row) ==
    IF row > state.ncols THEN 0
    ELSE (IF row \in state.stored /\ <<row, col>> \in matrix.stored
          THEN state.at[row] * matrix.at[row][col] ELSE 0)
         + SparseDotColumn(state, matrix, col, row + 1)

\* state * stage_matrix: a slot is stored when a stored slot of the state
\* meets a stored entry of its column
SparseDot(state, matrix) ==
    [ncols |-> matrix.ncols,
     at |-> [col \in 1 .. matrix.ncols |-> SparseDotColumn(state, matrix, col, 1)],
     stored |-> {col \in 1 .. matrix.ncols :
                    \E row \in state.stored : <<row, col>> \in matrix.stored}]

\* lines 21-25: the activation is applied where index_entry_mut finds a
\* stored entry
SparseTransform(state, transformations) ==
    [state EXCEPT !.at =
        [index \in 1 .. state.ncols |->
            IF index <= Len(transformations) /\ index \in state.stored
            THEN Apply(transformations[index], state.at[index])
            ELSE state.at[index]]]

\* lines 27-37
SparseOutput(state, len) ==
    [index \in 1 .. len |-> IF index \in state.stored THEN state.at[index] ELSE 0]

RECURSIVE SparseEvaluateFrom(_, _, _, _)
SparseEvaluateFrom(ev, state, len, k) ==
    IF k > Len(ev.stages) \/ k > Len(ev.transformations)
    THEN IF len > state.ncols
         THEN [status |-> "panic", state |-> <<>>]
         ELSE [status |-> "ok", state |-> SparseOutput(state, len)]
    ELSE IF state.ncols # ev.stages[k].nrows
            \/ Len(ev.transformations[k]) > ev.stages[k].ncols
    THEN [status |-> "panic", state |-> <<>>]
    ELSE SparseEvaluateFrom(ev,
            SparseTransform(SparseDot(state, ev.stages[k]), ev.transformations[k]),
            Len(ev.transformations[k]), k + 1)

\* SparseMatrixFeedforwardEvaluator::evaluate
sparse_evaluate(ev, state) == SparseEvaluateFrom(ev, CscFromDense(state), 0, 1)

\* an entry of a stage matrix: not stored, or stored with a value
Cells == {<<>>} \cup {<<v>> : v \in 0 .. MaxStateValue}

CscOf(cells, rows, cols) ==
    [nrows |-> rows, ncols |-> cols,
     at |-> [row \in 1 .. rows |->
               [col \in 1 .. cols |->
                   IF cells[row][col] = <<>> THEN 0 ELSE cells[row][col][1]]],
     stored |-> {rc \in (1 .. rows) \X (1 .. cols) : cells[rc[1]][rc[2]] # <<>>}]

CscMatrices(rows, cols) ==
    {CscOf(cells, rows, cols) : cells \in [1 .. rows -> [1 .. cols -> Cells]]}

InnerActivations == {"LINEAR", "SQUARED"}
FinalActivations == {"LINEAR", "GAUSSIAN"}

\* schedules of one or two stages whose shapes chain
Schedules ==
    UNION {
        {[stages |-> <<m>>, transformations |-> <<t>>] :
            m \in CscMatrices(rows, cols),
            t \in [1 .. cols -> FinalActivations]}
        \cup
        {[stages |-> <<m, last>>, transformations |-> <<t, tlast>>] :
            m \in CscMatrices(rows, cols), t \in [1 .. cols -> InnerActivations],
            last \in CscMatrices(cols, 1), tlast \in [1 .. 1 -> FinalActivations]}
        : rows \in 1 .. MaxStageDim, cols \in 1 .. MaxStageDim}

\* the DMatrix with the same entries
DenseOf(matrix) == [nrows |-> matrix.nrows, ncols |-> matrix.ncols, at |-> matrix.at]

DenseSchedule(ev) ==
    [stages |-> [k \in 1 .. Len(ev.stages) |-> DenseOf(ev.stages[k])],
     transformations |-> ev.transformations]

InitEvaluators ==
    /\ sparse_evaluator \in Schedules
    /\ evaluator = DenseSchedule(sparse_evaluator)
    /\ state_in \in [1 .. sparse_evaluator.stages[1].nrows -> 0 .. MaxStateValue]
    /\ state_out = <<>>
    /\ eval_status = "none"
    /\ sparse_state_out = <<>>
    /\ sparse_eval_status = "none"
    /\ net = NoNet
    /\ pc = "given"
    /\ result = "none"
    /\ dependency_graph = <<>>
    /\ dependency_count = 0
    /\ compute_stages = <<>>
    /\ stage_transformations = <<>>
    /\ available_nodes = <<>>
    /\ wanted_nodes = <<>>
    /\ next_available_nodes = <<>>
    /\ stage_rows = <<>>
    /\ stage_cols = <<>>
    /\ recurrent = NoNet
    /\ rpc = "off"
    /\ internal = <<>>
    /\ outputs_count = 0
    /\ steps = 0
    /\ history = <<>>
    /\ user_out = <<>>
    /\ sparse_pc = "given"
    /\ sparse_result = "none"
    /\ sparse_compute_stages = <<>>
    /\ sparse_stage_transformations = <<>>
    /\ sparse_stage_rows = <<>>
    /\ sparse_stage_cols = <<>>
    /\ neat_pc = "off"
    /\ neat_evaluator = NoNeatEvaluator
    /\ neat_calls = <<>>
    /\ neat_out = <<>>

\* MatrixFeedforwardEvaluator::evaluate on the given schedule
DenseEvaluate ==
    /\ pc = "given"
    /\ eval_status = "none"
    /\ state_out' = evaluate(evaluator, state_in).state
    /\ eval_status' = evaluate(evaluator, state_in).status
    /\ UNCHANGED <<net, pc, result, fvars, evaluator, state_in, rvars, sparse_pc,
                   sparse_result, sparse_compute_stages,
                   sparse_stage_transformations, sparse_stage_rows,
                   sparse_stage_cols, sparse_evaluator, sparse_state_out,
                   sparse_eval_status, nvars>>

\* SparseMatrixFeedforwardEvaluator::evaluate on the same schedule and input
SparseEvaluate ==
    /\ sparse_pc = "given"
    /\ sparse_eval_status = "none"
    /\ sparse_state_out' = sparse_evaluate(sparse_evaluator, state_in).state
    /\ sparse_eval_status' = sparse_evaluate(sparse_evaluator, state_in).status
    /\ UNCHANGED <<net, pc, result, fvars, evaluator, state_in, state_out,
                   eval_status, rvars, sparse_pc, sparse_result,
                   sparse_compute_stages, sparse_stage_transformations,
                   sparse_stage_rows, sparse_stage_cols, sparse_evaluator,
                   nvars>>

NextEvaluators == DenseEvaluate \/ SparseEvaluate

SpecEvaluators == InitEvaluators /\ [][NextEvaluators]_vars

BothEvaluated == eval_status # "none" /\ sparse_eval_status # "none"

\* C25: on every schedule and input the sparse evaluator returns what the
\* dense evaluator returns, every slot of every stage having its activation
\* applied, a slot whose value before activation is 0 included.
C25_SparseEvaluateEqualsDenseEvaluate ==
    BothEvaluated =>
        /\ sparse_eval_status = eval_status
        /\ sparse_state_out = state_out

\* every activation of the schedule maps 0 to 0
ZeroPreserving ==
    \A k \in 1 .. Len(evaluator.transformations) :
        \A j \in 1 .. Len(evaluator.transformations[k]) :
            evaluator.transformations[k][j] # "GAUSSIAN"

C25_WithZeroPreservingActivations ==
    ZeroPreserving => C25_SparseEvaluateEqualsDenseEvaluate

\* the nodes among candidates all of whose incoming edges start in C
AllIncomingFrom(n, C, candidates) ==
    {d \in candidates :
        \A k \in 1 .. Len(edges(n)) : edges(n)[k].end = d => edges(n)[k].start \in C}

\* the least set that holds the inputs and every candidate all of whose
\* incoming edges start in the set
RECURSIVE LeastClosed(_, _, _)
LeastClosed(n, C, candidates) ==
    LET D == C \cup AllIncomingFrom(n, C, candidates)
    IN IF D = C THEN C ELSE LeastClosed(n, D, candidates)

\* the outcome the precedence of the three errors prescribes, given the set C
OutcomeBy(n, C) ==
    IF edges(n) = <<>> THEN ErrNoEdges
    ELSE IF EndsOf(edges(n)) \ C # {} THEN ErrUnresolved
    ELSE IF OutputIds(n) \ (InputIds(n) \cup EndsOf(edges(n))) # {} THEN ErrOutputs
    ELSE "ok"

\* C26: on a graph with no edge ending at an input, fabricate returns "no
\* edges present" iff the edge list is empty, otherwise "can't resolve
\* dependencies" iff a node with incoming edges is outside the least set C
\* holding the inputs and every node all of whose incoming edges start in C,
\* otherwise "not all outputs computable" iff a declared output is neither
\* an input nor an edge end, otherwise it succeeds. (C grows by nodes that
\* have incoming edges.)
C26_OutcomeIsDetermined ==
    (Finished /\ NoEdgeIntoInput(net)) =>
        result = OutcomeBy(net, LeastClosed(net, InputIds(net), EndsOf(edges(net))))

\* the same with C grown by every node, those without incoming edges included
C26_WithEveryNodeInC ==
    (Finished /\ NoEdgeIntoInput(net) /\ result # "panic") =>
        result = OutcomeBy(net, LeastClosed(net, InputIds(net), DeclaredIds(net)))

\* ... and where the final reorder does not panic
C26_UnlessReorderPanics ==
    (Finished /\ NoEdgeIntoInput(net) /\ result # "panic") =>
        result = OutcomeBy(net, LeastClosed(net, InputIds(net), EndsOf(edges(net))))

\* the third error is returned on a graph with no edge into an input
C26_ThirdErrorOccurs ==
    /\ Finished /\ NoEdgeIntoInput(net)
    /\ result = ErrOutputs

\* the reorder panics only where "not all outputs computable" is prescribed
C26_PanicsReplaceThirdError ==
    (Finished /\ NoEdgeIntoInput(net) /\ result = "panic") =>
        OutcomeBy(net, LeastClosed(net, InputIds(net), EndsOf(edges(net))))
            = ErrOutputs

(***************************************************************************)
(* fabricate, lines 57-256, as a function of the graph and of the orders   *)
(* in which the dependency map iterates, one order for every round.        *)
(***************************************************************************)
\* line 105, dependency_graph.iter(): the entries of the map in the given order
IterateIn(graph, order) ==
    LET present(id) == \E i \in 1 .. Len(graph) : graph[i].node = id
        ids == SelectSeq(order, present)
    IN [k \in 1 .. Len(ids) |->
           graph[CHOOSE i \in 1 .. Len(graph) : graph[i].node = ids[k]]]

RECURSIVE StagingLoop(_, _, _)
StagingLoop(st, n, orders) ==
    IF st.dependency_graph = <<>> \/ st.result # "none" THEN st
    ELSE LET order == IF st.round <= Len(orders) THEN orders[st.round]
                      ELSE orders[Len(orders)]
             iterated == IterateIn(st.dependency_graph, order)
             computed == DependencyLoop(EmptyStage, iterated, 1,
                                        st.available_nodes, n)
             acc == KeepWanted(computed, st.wanted_nodes, st.available_nodes, 1, 1)
             remaining == RemoveResolved(st.dependency_graph,
                                         acc.next_available_nodes)
             r == Reorder(acc, st.wanted_nodes)
             Pushed(stage_matrix, transformations) ==
                 [st EXCEPT
                    !.dependency_graph = remaining,
                    !.dependency_count = Len(remaining),
                    !.compute_stages = Append(@, stage_matrix),
                    !.stage_transformations = Append(@, transformations),
                    !.available_nodes = acc.next_available_nodes,
                    !.round = @ + 1]
         IN IF NoProgress(remaining, st.dependency_count)
            THEN [st EXCEPT !.result = ErrUnresolved]
            ELSE IF remaining # <<>>
            THEN StagingLoop(Pushed(acc.stage_matrix, acc.transformations), n,
                             orders)
            ELSE IF r.panicked THEN [st EXCEPT !.result = "panic"]
            ELSE IF r.matched_wanted_count < Len(st.wanted_nodes)
            THEN [st EXCEPT !.result = ErrOutputs]
            ELSE [Pushed(r.reordered_matrix, r.reordered_transformations)
                    EXCEPT !.result = "ok"]

fabricate(n, orders) ==
    LET graph == BuildDependencyGraph(edges(n), orders[1])
        st == StagingLoop([dependency_graph |-> graph,
                           dependency_count |-> Len(graph),
                           available_nodes |-> sort_unstable(IdsOf(inputs(n))),
                           wanted_nodes |-> sort_unstable(IdsOf(outputs(n))),
                           compute_stages |-> <<>>,
                           stage_transformations |-> <<>>,
                           round |-> 1,
                           result |-> "none"], n, orders)
    IN IF NoEdgesPresent(graph)
       THEN [result |-> ErrNoEdges, evaluator |-> NoEvaluator]
       ELSE [result |-> st.result,
             evaluator |->
                 IF st.result = "ok"
                 THEN [stages |-> [s \in 1 .. Len(st.compute_stages) |->
                                      get_arr2(st.compute_stages[s])],
                       transformations |-> st.stage_transformations]
                 ELSE NoEvaluator]

\* one iteration order for every round that can iterate more than one entry:
\* a round that does not fail removes an entry, so round k iterates at most
\* |ends| - k + 1 entries
IterationOrders(n) ==
    LET ends == EndsOf(edges(n))
        rounds == IF Cardinality(ends) > 2 THEN Cardinality(ends) - 1 ELSE 1
    IN [1 .. rounds -> Perms(ends)]

\* the values at the declared output positions
AtOutputs(state, n) ==
    [j \in 1 .. n.outputs |-> IF j <= Len(state) THEN state[j] ELSE "missing"]

\* the finished run is the run of fabricate under one iteration order kept
\* through every round
RunIsFabricate ==
    Finished =>
        \E order \in Perms(EndsOf(edges(net))) :
            LET f == fabricate(net, <<order>>)
            IN /\ f.result = result
               /\ result = "ok" => f.evaluator = evaluator

SameOutcome(f) == f.result = result

SameOutputs(f) ==
    Evaluated =>
        LET other == evaluate(f.evaluator, state_in)
        IN /\ other.status = eval_status
           /\ AtOutputs(other.state, net) = AtOutputs(state_out, net)

OrderIndependent ==
    \A o \in IterationOrders(net) :
        LET f == fabricate(net, o) IN SameOutcome(f) /\ SameOutputs(f)

C27_WithoutEdgesIntoInputs ==
    (Finished /\ NoEdgeIntoInput(net)) => OrderIndependent

CarriedStarts(r) ==
    {recurrent_edges(r)[i].start : i \in 1 .. Len(recurrent_edges(r))}
        \ Range(IdsOf(outputs(r)))

\* the wrapper outputs of the unrolled graph: its outputs after the original ones
WrapperOutputs(r, u) ==
    {outputs(u)[j].id : j \in Len(outputs(r)) + 1 .. Len(outputs(u))}

\* the edges of the unrolled graph that end in a wrapper output
CarryEdges(r, u) ==
    {i \in 1 .. Len(edges(u)) : edges(u)[i].end \in WrapperOutputs(r, u)}

\* assert!(unrolled.inputs().len() - net.inputs().len() == memory) failed
AssertionFailed == rpc = "panic" /\ pc = "done" /\ steps = 0

UnrolledSizes ==
    LET k == Cardinality(CarriedStarts(recurrent))
    IN /\ Len(inputs(net))
            = Len(inputs(recurrent)) + Len(outputs(recurrent)) + k
       /\ Len(outputs(net)) = Len(outputs(recurrent)) + k
       /\ Cardinality(WrapperOutputs(recurrent, net)) = k
       /\ Cardinality(CarryEdges(recurrent, net)) = k
       /\ \A i \in CarryEdges(recurrent, net) : edges(net)[i].weight = 1
       /\ \A w \in WrapperOutputs(recurrent, net) :
              \E i \in CarryEdges(recurrent, net) : edges(net)[i].end = w
       /\ Len(edges(net))
            = Len(edges(recurrent)) + Len(recurrent_edges(recurrent)) + k

\* C28: for every recurrent graph, unroll returns a graph with
\* |inputs| = I + O + k and |outputs| = O + k, where k is the number of
\* distinct recurrent-edge start nodes that are not declared outputs (one
\* wrapper input/output pair and one weight-1 carry edge per such start
\* node); hence the recurrent fabricator's assertion
\* |unrolled inputs| - |original inputs| == |unrolled outputs| never fails.
C28_UnrolledSizes ==
    /\ Unrolled => UnrolledSizes
    /\ ~AssertionFailed

\* a fabricated evaluator of a graph with an output no recurrent edge reads, a
\* recurrent edge from an output, and two recurrent edges from one other node
C28_Witness ==
    /\ Fabricated
    /\ Cardinality(CarriedStarts(recurrent)) = 1
    /\ \E i, j \in 1 .. Len(recurrent_edges(recurrent)) :
          /\ i # j
          /\ recurrent_edges(recurrent)[i].start
                 = recurrent_edges(recurrent)[j].start
          /\ recurrent_edges(recurrent)[i].start \in CarriedStarts(recurrent)
    /\ Len(inputs(net)) > Len(inputs(recurrent)) + Len(outputs(recurrent))

(***************************************************************************)
(* neat_original: NeatOriginalFabricator and NeatOriginalEvaluator.        *)
(* Node positions are 1-based; node_active_output[id] is                   *)
(* <<current output, output before that>>.                                 *)
(***************************************************************************)
\* fabricator.rs lines 23-27: id_map, the position of the node with the id
\* (a later node of the same id overwrites the entry)
PositionOf(r, id) ==
    SetMax({i \in 1 .. Len(nodes(r)) : nodes(r)[i].id = id})

\* lines 36-50: the inputs of the node at a position, ordinary edges first
DependenciesAt(r, position) ==
    LET ends_here(e) == PositionOf(r, e.end) = position
        entry(e, is_recurrent) ==
            [dep_id |-> PositionOf(r, e.start), weight |-> e.weight,
             recurrent |-> is_recurrent]
        ordinary == SelectSeq(edges(r), ends_here)
        recurring == SelectSeq(recurrent_edges(r), ends_here)
    IN [k \in 1 .. Len(ordinary) |-> entry(ordinary[k], FALSE)]
           \o [k \in 1 .. Len(recurring) |-> entry(recurring[k], TRUE)]

\* NeatOriginalFabricator::fabricate, lines 17-67
NeatFabricated(r) ==
    [input_ids |-> [k \in 1 .. Len(inputs(r)) |-> PositionOf(r, inputs(r)[k].id)],
     output_ids |-> [k \in 1 .. Len(outputs(r)) |-> PositionOf(r, outputs(r)[k].id)],
     nodes |-> [i \in 1 .. Len(nodes(r)) |->
                   [activation_function |-> nodes(r)[i].activation,
                    inputs |-> DependenciesAt(r, i),
                    is_active |-> FALSE]],
     node_input_sum |-> [i \in 1 .. Len(nodes(r)) |-> 0],
     node_active_output |-> [i \in 1 .. Len(nodes(r)) |-> <<0, 0>>]]

\* evaluator.rs lines 23-30
outputs_off(ev) ==
    \E k \in 1 .. Len(ev.output_ids) : ~ev.nodes[ev.output_ids[k]].is_active

\* lines 35-38: the zip ends with the shorter of input_ids and input
RECURSIVE SetInputs(_, _, _)
SetInputs(ev, input, k) ==
    IF k > Len(ev.input_ids) \/ k > Len(input) THEN ev
    ELSE SetInputs([ev EXCEPT !.node_active_output[ev.input_ids[k]][1] = input[k],
                              !.nodes[ev.input_ids[k]].is_active = TRUE],
                   input, k + 1)

\* lines 49-58: one dependency of the node is added to its sum
RECURSIVE SumDependencies(_, _, _)
SumDependencies(ev, id, k) ==
    IF k > Len(ev.nodes[id].inputs) THEN ev
    ELSE LET dep == ev.nodes[id].inputs[k]
         IN SumDependencies(
                IF ~dep.recurrent
                THEN [ev EXCEPT
                        !.nodes[id].is_active =
                            IF ev.nodes[dep.dep_id].is_active THEN TRUE ELSE @,
                        !.node_input_sum[id] =
                            @ + ev.node_active_output[dep.dep_id][1] * dep.weight]
                ELSE [ev EXCEPT
                        !.node_input_sum[id] =
                            @ + ev.node_active_output[dep.dep_id][2] * dep.weight],
                id, k + 1)

\* lines 43-60: sums and activity of every node that is not an input, in
\* the order of the positions
RECURSIVE SumNodes(_, _)
SumNodes(ev, id) ==
    IF id > Len(ev.nodes) THEN ev
    ELSE IF Contains(ev.input_ids, id) THEN SumNodes(ev, id + 1)
    ELSE SumNodes(SumDependencies([ev EXCEPT !.node_input_sum[id] = 0,
                                             !.nodes[id].is_active = FALSE],
                                  id, 1),
                  id + 1)

\* line 63
IsActive(ev, id) == ev.nodes[id].is_active

\* lines 62-70: the outputs of the active nodes are shifted and recomputed
ActivateNodes(ev) ==
    [ev EXCEPT !.node_active_output =
        [id \in 1 .. Len(ev.nodes) |->
            IF ~Contains(ev.input_ids, id) /\ IsActive(ev, id)
            THEN <<Apply(ev.nodes[id].activation_function, ev.node_input_sum[id]),
                   ev.node_active_output[id][1]>>
            ELSE ev.node_active_output[id]]]

\* lines 43-72: one pass of the loop
Pass(ev) == ActivateNodes(SumNodes(ev, 1))

ActiveFlags(ev) == [id \in 1 .. Len(ev.nodes) |-> ev.nodes[id].is_active]

\* lines 40-73: the loop. The flags after a pass depend on the flags before
\* it only, and so does the loop's condition: once the flags repeat while an
\* output is off, the loop never ends.
RECURSIVE ActivationLoop(_, _, _)
ActivationLoop(ev, onetime, seen) ==
    IF ~(outputs_off(ev) \/ ~onetime) THEN [status |-> "ok", ev |-> ev]
    ELSE IF onetime /\ ActiveFlags(ev) \in seen THEN [status |-> "hangs", ev |-> ev]
    ELSE ActivationLoop(Pass(ev), TRUE,
                        IF onetime THEN seen \cup {ActiveFlags(ev)} ELSE seen)

\* lines 75-81
OutputsOf(ev) ==
    [k \in 1 .. Len(ev.output_ids) |-> ev.node_active_output[ev.output_ids[k]][1]]

\* NeatOriginalEvaluator::evaluate, lines 34-82
neat_evaluate(ev, input) ==
    LET r == ActivationLoop(SetInputs(ev, input, 1), FALSE, {})
    IN [status |-> r.status, ev |-> r.ev,
        out |-> IF r.status = "ok" THEN OutputsOf(r.ev) ELSE <<>>]

\* variant: the is_active flags are cleared as well
reset_with_flags(ev) ==
    [ev EXCEPT !.node_input_sum = [i \in 1 .. Len(ev.nodes) |-> 0],
               !.node_active_output = [i \in 1 .. Len(ev.nodes) |-> <<0, 0>>],
               !.nodes = [i \in 1 .. Len(ev.nodes) |->
                             [ev.nodes[i] EXCEPT !.is_active = FALSE]]]

\* reset_internal_state, lines 84-91
reset_internal_state(ev) ==
    [ev EXCEPT !.node_input_sum = [i \in 1 .. Len(ev.nodes) |-> 0],
               !.node_active_output = [i \in 1 .. Len(ev.nodes) |-> <<0, 0>>]]

\* the recurrent graphs, handed to NeatOriginalFabricator
InitNeat ==
    /\ \E n \in 2 .. MaxNodes : recurrent \in RecurrentNetsOf(n)
    /\ rpc = "off"
    /\ net = NoNet
    /\ pc = "idle"
    /\ result = "none"
    /\ dependency_graph = <<>>
    /\ dependency_count = 0
    /\ compute_stages = <<>>
    /\ stage_transformations = <<>>
    /\ available_nodes = <<>>
    /\ wanted_nodes = <<>>
    /\ next_available_nodes = <<>>
    /\ stage_rows = <<>>
    /\ stage_cols = <<>>
    /\ evaluator = NoEvaluator
    /\ state_in = <<>>
    /\ state_out = <<>>
    /\ eval_status = "none"
    /\ internal = <<>>
    /\ outputs_count = 0
    /\ steps = 0
    /\ history = <<>>
    /\ user_out = <<>>
    /\ SparseIdle
    /\ neat_pc = "start"
    /\ neat_evaluator = NoNeatEvaluator
    /\ neat_calls = <<>>
    /\ neat_out = <<>>

EvaluateCall(x) == [call |-> "evaluate", input |-> x]

ResetCall == [call |-> "reset_internal_state", input |-> <<>>]

NeatFabricate ==
    /\ neat_pc = "start"
    /\ neat_evaluator' = NeatFabricated(recurrent)
    /\ neat_pc' = "ready"
    /\ UNCHANGED <<net, pc, result, fvars, evaluator, state_in, state_out,
                   eval_status, rvars, svars, neat_calls, neat_out>>

NeatEvaluate ==
    /\ neat_pc = "ready"
    /\ Len(neat_calls) < MaxSteps
    /\ \E x \in [1 .. Len(inputs(recurrent)) -> XVals] :
         LET r == neat_evaluate(neat_evaluator, x)
         IN /\ neat_calls' = Append(neat_calls, EvaluateCall(x))
            /\ IF r.status = "hangs"
               THEN /\ neat_pc' = "hangs"
                    /\ UNCHANGED <<neat_evaluator, neat_out>>
               ELSE /\ neat_pc' = "ready"
                    /\ neat_evaluator' = r.ev
                    /\ neat_out' = r.out
    /\ UNCHANGED <<net, pc, result, fvars, evaluator, state_in, state_out,
                   eval_status, rvars, svars>>

NeatReset ==
    /\ neat_pc = "ready"
    /\ Len(neat_calls) < MaxSteps
    /\ neat_evaluator' = reset_internal_state(neat_evaluator)
    /\ neat_calls' = Append(neat_calls, ResetCall)
    /\ UNCHANGED <<net, pc, result, fvars, evaluator, state_in, state_out,
                   eval_status, rvars, svars, neat_pc, neat_out>>

NextNeat == NeatFabricate \/ NeatEvaluate \/ NeatReset

SpecNeat == InitNeat /\ [][NextNeat]_vars

(***************************************************************************)
(* Termination of NeatOriginalEvaluator::evaluate.                         *)
(***************************************************************************)
\* the declared outputs that no path of ordinary edges from an input reaches
UnreachedOutputs(r) == OutputIds(r) \ Closure(r, InputIds(r))

\* C29: NeatOriginalEvaluator::evaluate terminates for every net accepted by
\* NeatOriginalFabricator and every input: its activation loop exits after
\* finitely many passes, also when an output node has no ordinary-edge path
\* from any input.
C29_EvaluateTerminates == neat_pc # "hangs"

\* C29 on graphs whose outputs are all reached from an input by ordinary edges
C29_WithReachedOutputs ==
    UnreachedOutputs(recurrent) = {} => neat_pc # "hangs"

\* the first evaluate call never returns exactly when an output is unreached
C29_HangsOnUnreachedOutput ==
    (Len(neat_calls) = 1 /\ neat_calls[1] # ResetCall) =>
        (neat_pc = "hangs" <=> UnreachedOutputs(recurrent) # {})

\* evaluate returned for a graph that took more than one pass
C29_ReturnsAfterSeveralPasses ==
    /\ neat_pc = "ready"
    /\ Len(neat_calls) = 1
    /\ neat_calls[1] # ResetCall
    /\ neat_out # <<>>
    /\ \E id \in 1 .. Len(neat_evaluator.nodes) :
          neat_evaluator.node_active_output[id][2] # 0

(***************************************************************************)
(* reset_internal_state against a freshly fabricated evaluator.            *)
(***************************************************************************)
ResetPositions == {k \in 1 .. Len(neat_calls) : neat_calls[k] = ResetCall}

\* the evaluate calls made since the last reset_internal_state
CallsSinceReset ==
    SubSeq(neat_calls, SetMax(ResetPositions) + 1, Len(neat_calls))

\* the calls made one after the other on an evaluator
RECURSIVE NeatRun(_, _, _)
NeatRun(ev, calls, k) ==
    IF k > Len(calls) THEN [status |-> "ok", ev |-> ev, out |-> <<>>]
    ELSE LET r == neat_evaluate(ev, calls[k].input)
         IN IF r.status = "hangs" \/ k = Len(calls) THEN r
            ELSE NeatRun(r.ev, calls, k + 1)

\* an evaluate call was made after a reset that followed an evaluate call
EvaluatedAfterReset ==
    /\ ResetPositions # {}
    /\ SetMax(ResetPositions) < Len(neat_calls)
    /\ \E k \in 1 .. SetMax(ResetPositions) : neat_calls[k] # ResetCall

SameAsFresh ==
    LET fresh == NeatRun(NeatFabricated(recurrent), CallsSinceReset, 1)
    IN /\ fresh.status = "hangs" <=> neat_pc = "hangs"
       /\ fresh.status = "ok" => fresh.out = neat_out

\* C30: for NeatOriginalEvaluator, after any sequence of evaluate calls,
\* reset_internal_state followed by any input sequence yields the same
\* outputs, step by step, as a freshly fabricated evaluator given that input
\* sequence, although reset clears only the input sums and output pairs and
\* not the nodes' is_active flags.
C30_ResetThenRunIsFreshRun == EvaluatedAfterReset => SameAsFresh

\* every ordinary edge into a node that is not an input starts at an earlier
\* position of the node list
DependenciesComeFirst(r) ==
    \A k \in 1 .. Len(edges(r)) :
        \/ edges(r)[k].end \in InputIds(r)
        \/ PositionOf(r, edges(r)[k].start) < PositionOf(r, edges(r)[k].end)

\* C30 on graphs whose nodes are listed after their dependencies
C30_WhenDependenciesComeFirst ==
    (EvaluatedAfterReset /\ DependenciesComeFirst(recurrent)) => SameAsFresh

\* a reset evaluator that returned a nonzero output on such a graph
C30_AgreesWitness ==
    /\ EvaluatedAfterReset
    /\ DependenciesComeFirst(recurrent)
    /\ neat_pc = "ready"
    /\ recurrent_edges(recurrent) # <<>>
    /\ \E j \in 1 .. Len(neat_out) : neat_out[j] # 0
====
